---- MODULE Spec2Model ----
(***************************************************************************)
(* A model of posener/gitfs: the path tree (internal/tree), the lazily     *)
(* loaded file and its handles, and the two builders of internal/githubfs  *)
(* (the get-a-tree builder and the prefetching get-contents builder).      *)
(*                                                                         *)
(* Strings are sequences of one-character strings, so that strings.Trim    *)
(* and filepath.Split are computed as the code computes them.              *)
(***************************************************************************)
EXTENDS Integers, Sequences, FiniteSets, TLC

VARIABLES
    tree,       \* tree.Tree: map from path to *dir / *file
    lastOp,     \* the last Tree call: [op, path, size, load]
    lastErr,    \* whether the last Tree call returned a non-nil error
    nAdds,      \* number of AddDir/AddFile calls made so far
    content,    \* file.content of every file of the tree (Nil: a nil slice)
    fmu,        \* file.mu of every file: the goroutine holding it, or Free
    loadCalls,  \* number of calls of file.load, per file
    handles,    \* the lazyReader values made so far
    readers,    \* the bytes.Reader values the handles point to
    cancelled,  \* whether the cancellable request context is done
    threads,    \* the goroutines using the handles: the call each is in
    lastRes,    \* what the last finished Read, Seek or Close returned
    gc,         \* the recursiveGetContents of a prefetching construction
    lastCall,   \* the last Open, Readdir, New or newProject call and what it returned
    binfsData   \* binfs.data: the registered projects and their packed filesystems

treeVars == <<tree, lastOp, lastErr, nAdds>>

fileVars == <<content, fmu, loadCalls, handles, readers, cancelled, threads, lastRes>>

buildVars == <<gc>>

openVars == <<lastCall, binfsData>>

vars == <<tree, lastOp, lastErr, nAdds,
          content, fmu, loadCalls, handles, readers, cancelled, threads, lastRes, gc,
          lastCall, binfsData>>

----------------------------------------------------------------------------
(* Bounds *)

\* Longest path string handed to AddDir/AddFile.
MaxPathLen == 3

\* Number of AddDir/AddFile calls in one behaviour.
MaxAdds == 2

\* Largest declared size handed to AddFile.
MaxSize == 1

\* Number of handles (Open and WithContext calls) in one behaviour.
MaxHandles == 2

\* Number of loader calls per file in one behaviour.
MaxLoads == 2

\* Longest buffer handed to Read.
MaxBuf == 1

----------------------------------------------------------------------------
(* Strings *)

Alphabet == {"a", "/"}

RECURSIVE StringsUpTo(_)
StringsUpTo(n) ==
    IF n = 0 THEN {<<>>}
    ELSE LET shorter == StringsUpTo(n - 1)
         IN  shorter \cup {Append(s, c) : s \in {x \in shorter : Len(x) = n - 1}, c \in Alphabet}

RawPaths == StringsUpTo(MaxPathLen)

\* strings.TrimLeft(s, "/")
RECURSIVE TrimLeft(_)
TrimLeft(s) ==
    IF s # <<>> /\ Head(s) = "/" THEN TrimLeft(Tail(s)) ELSE s

\* strings.TrimRight(s, "/")
RECURSIVE TrimRight(_)
TrimRight(s) ==
    IF s # <<>> /\ s[Len(s)] = "/" THEN TrimRight(SubSeq(s, 1, Len(s) - 1)) ELSE s

\* cleanPath(path) == strings.Trim(path, "/")
cleanPath(path) == TrimRight(TrimLeft(path))

\* Index of the last "/" of s, 0 when there is none.
LastSlash(s) ==
    LET idx == {i \in 1..Len(s) : s[i] = "/"}
    IN  IF idx = {} THEN 0 ELSE CHOOSE i \in idx : \A j \in idx : j <= i

\* filepath.Split(path): the directory part keeps its trailing separator.
SplitDir(path) == SubSeq(path, 1, LastSlash(path))

SplitName(path) == SubSeq(path, LastSlash(path) + 1, Len(path))

----------------------------------------------------------------------------
(* internal/tree: Tree.AddDir, Tree.AddFile *)

\* The loaders handed to AddFile, by what they do:
\*   ok        returns the content, an error when its context is done
\*   fail      returns an error
\*   flaky     a remote fetch: returns the content or an error
\*   empty     returns a nil slice and no error (the content of an empty file)
\*   ignorectx returns the content without looking at its context
Loaders == {"ok", "fail", "flaky", "empty", "ignorectx"}

newDir(name) == [kind |-> "dir", name |-> name, size |-> 0, load |-> "none", files |-> <<>>]

newFile(name, size, load) ==
    [kind |-> "file", name |-> name, size |-> size, load |-> load, files |-> <<>>]

\* The os.FileInfo that a directory keeps of a child: Name, Size, IsDir.
FileInfo(node) == [name |-> node.name, kind |-> node.kind, size |-> node.size]

\* t[path] = node
Put(t, path, node) ==
    [p \in DOMAIN t \cup {path} |-> IF p = path THEN node ELSE t[p]]

\* dir.add: d.files = append(d.files, f)
dirAdd(t, dirPath, info) ==
    [t EXCEPT ![dirPath].files = Append(@, info)]

RECURSIVE AddDir(_, _)

\* AddDir without the check of the kind of an existing entry: a file at the
\* path is replaced by a directory.
AddDirOverride(t, rawPath) ==
    LET path    == cleanPath(rawPath)
        dirPath == cleanPath(SplitDir(path))
        name    == SplitName(path)
        d       == newDir(name)
        t1      == Put(t, path, d)
    IN  IF path \in DOMAIN t /\ t[path].kind = "dir"
        THEN [t |-> t, err |-> FALSE]
        ELSE IF name = <<>>
             THEN [t |-> t1, err |-> FALSE]
             ELSE LET r == AddDir(t1, dirPath)
                  IN  IF r.err
                      THEN [t |-> r.t, err |-> TRUE]
                      ELSE [t |-> dirAdd(r.t, dirPath, FileInfo(d)), err |-> FALSE]

\* Tree.AddDir, the value is [t |-> the tree afterwards, err |-> error returned].
AddDir(t, rawPath) ==
    LET path == cleanPath(rawPath)
    IN  IF path \in DOMAIN t
        THEN [t |-> t, err |-> t[path].kind # "dir"]
        ELSE LET dirPath == cleanPath(SplitDir(path))
                 name    == SplitName(path)
                 d       == newDir(name)
                 t1      == Put(t, path, d)
             IN  IF name = <<>>
                 THEN [t |-> t1, err |-> FALSE]
                 ELSE LET r == AddDir(t1, dirPath)
                      IN  IF r.err
                          THEN [t |-> r.t, err |-> TRUE]
                          ELSE [t |-> dirAdd(r.t, dirPath, FileInfo(d)), err |-> FALSE]

\* AddFile that stores the newly declared file also where a file is present.
AddFileReplace(t, rawPath, size, load) ==
    LET path    == cleanPath(rawPath)
        dirPath == cleanPath(SplitDir(path))
        name    == SplitName(path)
        f       == newFile(name, size, load)
        t1      == Put(t, path, f)
        r       == AddDir(t1, dirPath)
    IN  IF path \in DOMAIN t
        THEN [t |-> IF t[path].kind = "file" THEN t1 ELSE t, err |-> t[path].kind # "file"]
        ELSE IF r.err
             THEN [t |-> r.t, err |-> TRUE]
             ELSE [t |-> dirAdd(r.t, dirPath, FileInfo(f)), err |-> FALSE]

\* Tree.AddFile
AddFile(t, rawPath, size, load) ==
    LET path == cleanPath(rawPath)
    IN  IF path \in DOMAIN t
        THEN [t |-> t, err |-> t[path].kind # "file"]
        ELSE LET dirPath == cleanPath(SplitDir(path))
                 name    == SplitName(path)
                 f       == newFile(name, size, load)
                 t1      == Put(t, path, f)
                 r       == AddDir(t1, dirPath)
             IN  IF r.err
                 THEN [t |-> r.t, err |-> TRUE]
                 ELSE [t |-> dirAdd(r.t, dirPath, FileInfo(f)), err |-> FALSE]

EmptyTree == [p \in {} |-> newDir(<<>>)]

NoOp == [op |-> "none", path |-> <<>>, size |-> 0, load |-> "none"]

----------------------------------------------------------------------------
(* The tree under arbitrary AddDir/AddFile calls *)

\* No file is opened while the tree is built.
FilesIdle ==
    /\ content = <<>>
    /\ fmu = <<>>
    /\ loadCalls = <<>>
    /\ handles = <<>>
    /\ readers = <<>>
    /\ cancelled = FALSE
    /\ threads = <<>>
    /\ lastRes = <<>>

\* No project is downloaded.
NoBuild == <<>>

\* No Open or Readdir call was made.
NoCall == <<>>

NoData == <<>>

InitTree ==
    /\ tree = EmptyTree
    /\ lastOp = NoOp
    /\ lastErr = FALSE
    /\ nAdds = 0
    /\ FilesIdle
    /\ gc = NoBuild
    /\ lastCall = NoCall
    /\ binfsData = NoData

CallAddDir ==
    /\ nAdds < MaxAdds
    /\ \E p \in RawPaths :
        LET r == AddDir(tree, p)
        IN  /\ tree' = r.t
            /\ lastErr' = r.err
            /\ lastOp' = [op |-> "AddDir", path |-> p, size |-> 0, load |-> "none"]
    /\ nAdds' = nAdds + 1
    /\ UNCHANGED <<fileVars, buildVars, openVars>>

CallAddFile ==
    /\ nAdds < MaxAdds
    /\ \E p \in RawPaths, size \in 0..MaxSize, load \in {"ok", "fail"} :
        LET r == AddFile(tree, p, size, load)
        IN  /\ tree' = r.t
            /\ lastErr' = r.err
            /\ lastOp' = [op |-> "AddFile", path |-> p, size |-> size, load |-> load]
    /\ nAdds' = nAdds + 1
    /\ UNCHANGED <<fileVars, buildVars, openVars>>

NextTree == CallAddDir \/ CallAddFile

SpecTree == InitTree /\ [][NextTree]_vars

----------------------------------------------------------------------------
(* Tree.Open and dir.Readdir on the trees that AddDir and AddFile make *)

RECURSIVE TreesAfter(_)
\* The trees after at most n calls of AddDir and AddFile, failed calls
\* included.
TreesAfter(n) ==
    IF n = 0 THEN {EmptyTree}
    ELSE LET prev == TreesAfter(n - 1)
         IN  prev
             \cup {AddDir(t, p).t : t \in prev, p \in RawPaths}
             \cup {AddFile(t, p, 0, "ok").t : t \in prev, p \in RawPaths}

\* The names given to Open: a path of the tree with a "/" before or after.
OpenNames == StringsUpTo(MaxPathLen + 1)

\* valid without the test of the trailing separator.
validAny(name, node) == TRUE

\* valid(name, info)
valid(name, node) ==
    LET expectingDir == Len(name) > 0 /\ name[Len(name)] = "/"
    IN  expectingDir => node.kind = "dir"

\* Tree.Open: the error returned and the path of the node that is opened.
TreeOpen(t, name) ==
    LET path == TrimRight(TrimLeft(name))
    IN  IF path \notin DOMAIN t
        THEN [err |-> "ErrNotExist", path |-> <<>>]
        ELSE IF ~valid(name, t[path])
             THEN [err |-> "ErrInvalid", path |-> <<>>]
             ELSE [err |-> "nil", path |-> path]

\* Readdir that gives all the entries whatever n is.
ReaddirAll(d, n) == [files |-> d.files, err |-> "nil"]

\* Readdir that goes on after the entries that the call before it returned.
ReaddirAdvancing(d, n) ==
    LET seen == IF lastCall # NoCall /\ lastCall.op = "Readdir" /\ lastCall.files # d.files
                THEN Len(lastCall.files) ELSE 0
        rest == SubSeq(d.files, seen + 1, Len(d.files))
    IN  IF n <= 0 \/ n >= Len(rest)
        THEN [files |-> rest, err |-> "nil"]
        ELSE [files |-> SubSeq(rest, 1, n), err |-> "nil"]

\* dir.Readdir
Readdir(d, n) ==
    IF n <= 0 \/ n >= Len(d.files)
    THEN [files |-> d.files, err |-> "nil"]
    ELSE [files |-> SubSeq(d.files, 1, n), err |-> "nil"]

InitOpen ==
    /\ tree \in TreesAfter(MaxAdds)
    /\ lastOp = NoOp
    /\ lastErr = FALSE
    /\ nAdds = 0
    /\ FilesIdle
    /\ gc = NoBuild
    /\ lastCall = NoCall
    /\ binfsData = NoData

\* A call of Tree.Open.
CallOpen ==
    /\ \E name \in OpenNames :
          LET r == TreeOpen(tree, name)
          IN  lastCall' = [op |-> "Open", name |-> name, n |-> 0,
                           err |-> r.err, path |-> r.path, files |-> <<>>]
    /\ UNCHANGED <<treeVars, fileVars, buildVars, binfsData>>

\* A call of Readdir on a directory that was opened.
CallReaddir ==
    /\ \E d \in {p \in DOMAIN tree : tree[p].kind = "dir"} :
       \E n \in -1..(Len(tree[d].files) + 1) :
          LET r == Readdir(tree[d], n)
          IN  lastCall' = [op |-> "Readdir", name |-> d, n |-> n,
                           err |-> r.err, path |-> d, files |-> r.files]
    /\ UNCHANGED <<treeVars, fileVars, buildVars, binfsData>>

NextOpen == CallOpen \/ CallReaddir

SpecOpen == InitOpen /\ [][NextOpen]_vars

\* Directories are listed while the tree is built.
NextList == CallAddDir \/ CallAddFile \/ CallReaddir

SpecList == InitTree /\ [][NextList]_vars

----------------------------------------------------------------------------
(* The lazily loaded file and its handles *)

Nil == <<"nil">>

Free == "free"

Threads == {"g1", "g2"}

\* The bytes every loader of the model returns when it returns content.
FileData == <<"x", "y">>

\* A []byte as a sequence: a nil slice reads as an empty one.
Bytes(b) == IF b = Nil THEN <<>> ELSE b

\* What a loader returns for every file of the model.
LoaderContent(kind) == IF kind = "empty" THEN Nil ELSE FileData

\* Loaders that never look at their context.
LoadOutcomesIgnoreCtx(kind, ctxDone) ==
    LET failure == [buf |-> Nil, err |-> TRUE]
        success == [buf |-> LoaderContent(kind), err |-> FALSE]
    IN  CASE kind = "fail"  -> {failure}
          [] kind = "flaky" -> {failure, success}
          [] OTHER          -> {success}

\* The results f.load(ctx) can have: [buf, err].
LoadOutcomes(kind, ctxDone) ==
    LET failure == [buf |-> Nil, err |-> TRUE]
        success == [buf |-> LoaderContent(kind), err |-> FALSE]
    IN  CASE kind = "ok"        -> IF ctxDone THEN {failure} ELSE {success}
          [] kind = "fail"      -> {failure}
          [] kind = "flaky"     -> IF ctxDone THEN {failure} ELSE {failure, success}
          [] kind = "empty"     -> IF ctxDone THEN {failure} ELSE {success}
          [] kind = "ignorectx" -> {success}

\* loadContent that never takes the content for cached.
IsCachedNever(c) == FALSE

\* file.loadContent: the cached content is used when it is not nil.
IsCached(c) == c # Nil

\* file.loadContent: a loader that stores its buffer also when it failed
\* (an empty, non-nil buffer).
StoreContentOnError(old, outcome) ==
    IF outcome.err THEN <<>> ELSE outcome.buf

\* file.loadContent: f.content after the loader returned.
StoreContent(old, outcome) ==
    IF outcome.err THEN old ELSE outcome.buf

Contexts == {"background", "request"}

\* ctx.Err() != nil
Done(ctx) == ctx = "request" /\ cancelled

NoReader == 0

\* file.Open. The fields from, fresh, out and eof are not fields of the
\* lazyReader: from is the handle a WithContext copy was made of; fresh says
\* that the handle's reader is pointed to by no other handle and was only
\* read since it was made, out and eof are what those reads returned.
newLazyReader(f) ==
    [file |-> f, reader |-> NoReader, ctx |-> "background",
     from |-> 0, fresh |-> TRUE, out |-> <<>>, eof |-> FALSE]

\* lazyReader.withContext: the receiver is copied by value, its reader
\* pointer with it.
withContext(r, ctx) ==
    [r EXCEPT !.ctx = ctx]

\* bytes.NewReader(b)
NewReader(b) == [s |-> Bytes(b), i |-> 0]

Min(a, b) == IF a < b THEN a ELSE b

\* bytes.Reader.Read with a buffer of n bytes: [rd, data, err].
ReaderRead(rd, n) ==
    IF rd.i >= Len(rd.s)
    THEN [rd |-> rd, data |-> <<>>, err |-> "EOF"]
    ELSE LET m == Min(n, Len(rd.s) - rd.i)
         IN  [rd   |-> [rd EXCEPT !.i = rd.i + m],
              data |-> SubSeq(rd.s, rd.i + 1, rd.i + m),
              err  |-> "nil"]

Whences == {"SeekStart", "SeekCurrent", "SeekEnd"}

\* bytes.Reader.Seek: [rd, data, err].
ReaderSeek(rd, offset, whence) ==
    LET abs == CASE whence = "SeekStart"   -> offset
                 [] whence = "SeekCurrent" -> rd.i + offset
                 [] whence = "SeekEnd"     -> Len(rd.s) + offset
    IN  IF abs < 0
        THEN [rd |-> rd, data |-> <<>>, err |-> "error"]
        ELSE [rd |-> [rd EXCEPT !.i = abs], data |-> <<>>, err |-> "nil"]

\* The paths of the files of the tree.
FilePaths == {p \in DOMAIN tree : tree[p].kind = "file"}

HandleIds == 1..Len(handles)

\* The readers some handle points to.
LiveReaders(hs) == {hs[h].reader : h \in 1..Len(hs)} \ {NoReader}

\* Readers no handle points to any more are collected.
Collect(rs, hs) ==
    [id \in DOMAIN rs \cap LiveReaders(hs) |-> rs[id]]

\* A goroutine outside any call; within a call, done tells whether the
\* context of the handle was cancelled when the call was made.
Idle == [pc |-> "idle", op |-> "none", h |-> 0, n |-> 0, offset |-> 0,
         whence |-> "SeekStart", ctx |-> "background", done |-> FALSE,
         loaded |-> FALSE]

NoResult == [op |-> "none", h |-> 0, err |-> "nil", data |-> <<>>, loaded |-> FALSE]

\* What a finished call leaves in lastRes: what it returned, and whether
\* the loader ran and succeeded within it.
Result(t, err, data, loaded) ==
    [op |-> threads[t].op, h |-> threads[t].h, err |-> err, data |-> data,
     loaded |-> loaded]

\* The file of the tree the handles are opened on.
FixturePath == <<"a">>

InitFile ==
    /\ \E kind \in Loaders : tree = AddFile(EmptyTree, <<"/", "a">>, 0, kind).t
    /\ lastOp = NoOp
    /\ lastErr = FALSE
    /\ nAdds = 0
    /\ content = [f \in {FixturePath} |-> Nil]
    /\ fmu = [f \in {FixturePath} |-> Free]
    /\ loadCalls = [f \in {FixturePath} |-> 0]
    /\ handles = <<>>
    /\ readers = <<>>
    /\ cancelled = FALSE
    /\ threads = [t \in Threads |-> Idle]
    /\ lastRes = NoResult
    /\ gc = NoBuild
    /\ lastCall = NoCall
    /\ binfsData = NoData

\* file.Open: a new lazyReader on the file.
OpenFile(t) ==
    /\ threads[t].pc = "idle"
    /\ Len(handles) < MaxHandles
    /\ \E f \in FilePaths : handles' = Append(handles, newLazyReader(f))
    /\ UNCHANGED <<treeVars, buildVars, openVars, content, fmu, loadCalls, readers, cancelled, threads, lastRes>>

\* lazyReader.WithContext: a new lazyReader copied from handle h.
WithContext(t) ==
    /\ threads[t].pc = "idle"
    /\ Len(handles) < MaxHandles
    /\ \E h \in HandleIds, ctx \in Contexts :
          LET copy   == withContext(handles[h], ctx)
              shared == copy.reader # NoReader
          IN  handles' = Append(
                  IF shared
                  THEN [handles EXCEPT ![h].fresh = FALSE, ![h].out = <<>>, ![h].eof = FALSE]
                  ELSE handles,
                  [copy EXCEPT !.from = h, !.fresh = ~shared, !.out = <<>>, !.eof = FALSE])
    /\ UNCHANGED <<treeVars, buildVars, openVars, content, fmu, loadCalls, readers, cancelled, threads, lastRes>>

\* lazyReader.Close
Close(t) ==
    /\ threads[t].pc = "idle"
    /\ \E h \in HandleIds :
          /\ handles' = [handles EXCEPT ![h].reader = NoReader, ![h].ctx = "background",
                                        ![h].fresh = TRUE, ![h].out = <<>>, ![h].eof = FALSE]
          /\ readers' = Collect(readers, handles')
          /\ lastRes' = [NoResult EXCEPT !.op = "Close", !.h = h]
    /\ UNCHANGED <<treeVars, buildVars, openVars, content, fmu, loadCalls, cancelled, threads>>

\* The request context is cancelled.
Cancel ==
    /\ ~cancelled
    /\ cancelled' = TRUE
    /\ UNCHANGED <<treeVars, buildVars, openVars, content, fmu, loadCalls, handles, readers, threads, lastRes>>

\* lazy() with one reader for all the handles of the program.
lazyShared(hs, rs, h, c) ==
    IF hs[h].reader = NoReader
    THEN [handles |-> [hs EXCEPT ![h].reader = 1],
          readers |-> IF 1 \in DOMAIN rs THEN rs ELSE (1 :> NewReader(c)) @@ rs]
    ELSE [handles |-> hs, readers |-> rs]

\* lazyReader.lazy: under r.mu, a nil r.reader is set to a reader of f.content.
lazy(hs, rs, h, c) ==
    IF hs[h].reader = NoReader
    THEN LET id == CHOOSE i \in 1..(Len(hs) + 1) : i \notin DOMAIN rs
         IN  [handles |-> [hs EXCEPT ![h].reader = id],
              readers |-> (id :> NewReader(c)) @@ rs]
    ELSE [handles |-> hs, readers |-> rs]

\* One mutex for all the files: f.mu.Lock() waits while any file is loading.
UnlockedAll(mu, f) == \A g \in DOMAIN mu : mu[g] = Free

\* f.mu.Lock() goes on when the mutex of file f is free.
Unlocked(mu, f) == mu[f] = Free

\* Read or Seek is called: r.lazy() calls f.loadContent(r.ctx), which takes
\* f.mu; content already cached is used (the rest of lazy() follows), otherwise
\* the loader is called with the lock held.
Begin(t, call) ==
    LET f == handles[call.h].file
        l == lazy(handles, readers, call.h, content[f])
    IN  /\ threads[t].pc = "idle"
        /\ Unlocked(fmu, f)
        /\ IF IsCached(content[f])
           THEN /\ threads' = [threads EXCEPT ![t] = [call EXCEPT !.pc = "use"]]
                /\ handles' = l.handles
                /\ readers' = l.readers
                /\ UNCHANGED <<fmu, loadCalls>>
           ELSE /\ loadCalls[f] < MaxLoads
                /\ fmu' = [fmu EXCEPT ![f] = t]
                /\ loadCalls' = [loadCalls EXCEPT ![f] = @ + 1]
                /\ threads' = [threads EXCEPT ![t] = [call EXCEPT !.pc = "loading"]]
                /\ UNCHANGED <<handles, readers>>
        /\ UNCHANGED <<treeVars, buildVars, openVars, content, cancelled, lastRes>>

\* lazyReader.Read is called with a buffer of n bytes.
BeginRead(t) ==
    \E h \in HandleIds, n \in 1..MaxBuf :
        Begin(t, [Idle EXCEPT !.op = "Read", !.h = h, !.n = n, !.ctx = handles[h].ctx,
                              !.done = Done(handles[h].ctx)])

\* lazyReader.Seek is called.
BeginSeek(t) ==
    \E h \in HandleIds, offset \in {-1, 0}, whence \in Whences :
        Begin(t, [Idle EXCEPT !.op = "Seek", !.h = h, !.offset = offset,
                              !.whence = whence, !.ctx = handles[h].ctx,
                              !.done = Done(handles[h].ctx)])

\* file.loadContent: the loader returns and f.mu is unlocked; an error is
\* returned to the caller of Read or Seek, otherwise the rest of lazy() follows.
FinishLoad(t) ==
    LET h == threads[t].h
        f == handles[h].file
    IN  /\ threads[t].pc = "loading"
        /\ \E o \in LoadOutcomes(tree[f].load, Done(threads[t].ctx)) :
              /\ content' = [content EXCEPT ![f] = StoreContent(@, o)]
              /\ IF o.err
                 THEN /\ threads' = [threads EXCEPT ![t] = Idle]
                      /\ lastRes' = Result(t, "error", <<>>, FALSE)
                      /\ UNCHANGED <<handles, readers>>
                 ELSE LET l == lazy(handles, readers, h, StoreContent(content[f], o))
                      IN  /\ threads' = [threads EXCEPT ![t].pc = "use", ![t].loaded = TRUE]
                          /\ handles' = l.handles
                          /\ readers' = l.readers
                          /\ UNCHANGED lastRes
        /\ fmu' = [fmu EXCEPT ![f] = Free]
        /\ UNCHANGED <<treeVars, buildVars, openVars, loadCalls, cancelled>>

\* Whether the call of goroutine t ran the loader.
Loaded(t) == threads[t].loaded

\* r.reader is read without r.mu after lazy() has returned. When a Close has
\* set it to nil in between, the read races with that write: it sees nil and
\* the call panics, or it sees the reader that Close has dropped.
RaceOutcomes == {"panic", "stale"}

\* lazyReader.Read after lazy(): r.ctx.Err(), then r.reader.Read(p).
UseRead(t) ==
    LET h  == threads[t].h
        id == handles[h].reader
        rr == ReaderRead(readers[id], threads[t].n)
    IN  /\ threads[t].pc \in {"use", "used"}
        /\ threads[t].op = "Read"
        /\ IF Done(handles[h].ctx)
           THEN /\ lastRes' = Result(t, "error", <<>>, Loaded(t))
                /\ UNCHANGED <<handles, readers>>
           ELSE IF id = NoReader
           THEN /\ \E outcome \in RaceOutcomes : lastRes' = Result(t, outcome, <<>>, Loaded(t))
                /\ UNCHANGED <<handles, readers>>
           ELSE /\ lastRes' = Result(t, rr.err, rr.data, Loaded(t))
                /\ readers' = [readers EXCEPT ![id] = rr.rd]
                /\ handles' = IF handles[h].fresh
                              THEN [handles EXCEPT ![h].out = @ \o rr.data,
                                                   ![h].eof = (rr.err = "EOF")]
                              ELSE handles
        /\ threads' = [threads EXCEPT ![t] = Idle]
        /\ UNCHANGED <<treeVars, buildVars, openVars, content, fmu, loadCalls, cancelled>>

\* lazyReader.Seek after lazy(): r.reader.Seek(offset, whence).
UseSeek(t) ==
    LET h  == threads[t].h
        id == handles[h].reader
        rs == ReaderSeek(readers[id], threads[t].offset, threads[t].whence)
    IN  /\ threads[t].pc \in {"use", "used"}
        /\ threads[t].op = "Seek"
        /\ IF id = NoReader
           THEN /\ \E outcome \in RaceOutcomes : lastRes' = Result(t, outcome, <<>>, Loaded(t))
                /\ UNCHANGED <<handles, readers>>
           ELSE /\ lastRes' = Result(t, rs.err, <<>>, Loaded(t))
                /\ readers' = [readers EXCEPT ![id] = rs.rd]
                /\ handles' = [handles EXCEPT ![h].fresh = FALSE, ![h].out = <<>>,
                                              ![h].eof = FALSE]
        /\ threads' = [threads EXCEPT ![t] = Idle]
        /\ UNCHANGED <<treeVars, buildVars, openVars, content, fmu, loadCalls, cancelled>>

\* One goroutine uses the handles: every call runs to its end before the next.
NextFile ==
    \/ Cancel
    \/ OpenFile("g1")
    \/ WithContext("g1")
    \/ Close("g1")
    \/ BeginRead("g1")
    \/ BeginSeek("g1")
    \/ FinishLoad("g1")
    \/ UseRead("g1")
    \/ UseSeek("g1")

SpecFile == InitFile /\ [][NextFile]_vars

\* The goroutines open handles and read them concurrently.
NextReaders ==
    \E t \in Threads :
        \/ OpenFile(t)
        \/ BeginRead(t)
        \/ FinishLoad(t)
        \/ UseRead(t)

SpecReaders == InitFile /\ [][NextReaders]_vars

\* One goroutine reads and seeks on the handles while another closes them.
NextRace ==
    \/ OpenFile("g1")
    \/ BeginRead("g1")
    \/ BeginSeek("g1")
    \/ FinishLoad("g1")
    \/ UseRead("g1")
    \/ UseSeek("g1")
    \/ Close("g2")

SpecRace == InitFile /\ [][NextRace]_vars

\* The files of a tree with two files.
TwoFiles == {<<"a">>, <<"a", "a">>}

\* A tree with two files, each with its loader, its content and its mutex.
InitTwoFiles ==
    /\ \E k1 \in {"ok", "flaky"}, k2 \in {"ok", "flaky"} :
          tree = AddFile(AddFile(EmptyTree, <<"a">>, 0, k1).t, <<"a", "a">>, 0, k2).t
    /\ lastOp = NoOp
    /\ lastErr = FALSE
    /\ nAdds = 0
    /\ content = [f \in TwoFiles |-> Nil]
    /\ fmu = [f \in TwoFiles |-> Free]
    /\ loadCalls = [f \in TwoFiles |-> 0]
    /\ handles = <<>>
    /\ readers = <<>>
    /\ cancelled = FALSE
    /\ threads = [t \in Threads |-> Idle]
    /\ lastRes = NoResult
    /\ gc = NoBuild
    /\ lastCall = NoCall
    /\ binfsData = NoData

\* The goroutines open and read the two files concurrently.
SpecTwoFiles == InitTwoFiles /\ [][NextReaders]_vars

----------------------------------------------------------------------------
(* The glob patterns *)

\* strings.HasPrefix
HasPrefix(s, prefix) ==
    Len(prefix) <= Len(s) /\ SubSeq(s, 1, Len(prefix)) = prefix

\* strings.TrimPrefix
TrimPrefix(s, prefix) ==
    IF HasPrefix(s, prefix) THEN SubSeq(s, Len(prefix) + 1, Len(s)) ELSE s

\* Index of the first separator of s, 0 when it has none.
FirstSlash(s) ==
    IF \E i \in 1..Len(s) : s[i] = "/"
    THEN CHOOSE i \in 1..Len(s) : s[i] = "/" /\ \A j \in 1..(i - 1) : s[j] # "/"
    ELSE 0

RECURSIVE Split(_)
\* strings.Split(s, "/"): the parts between the separators, in order.
Split(s) ==
    IF FirstSlash(s) = 0
    THEN <<s>>
    ELSE <<SubSeq(s, 1, FirstSlash(s) - 1)>> \o Split(SubSeq(s, FirstSlash(s) + 1, Len(s)))

RECURSIVE Join(_)
\* strings.Join(parts, "/")
Join(parts) ==
    IF parts = <<>> THEN <<>>
    ELSE IF Len(parts) = 1 THEN parts[1]
    ELSE parts[1] \o <<"/">> \o Join(Tail(parts))

\* filepath.Clean on paths without dot elements: separators are not
\* repeated, none trails, and the empty path is ".".
Clean(path) ==
    LET parts   == SelectSeq(Split(path), LAMBDA part : part # <<>>)
        rooted  == path # <<>> /\ path[1] = "/"
        cleaned == (IF rooted THEN <<"/">> ELSE <<>>) \o Join(parts)
    IN  IF cleaned = <<>> THEN <<".">> ELSE cleaned

\* The pattern elements: a character, "*", "?" and the class [^a].
NotA == "[^a]"

RECURSIVE FilepathMatch(_, _)
\* filepath.Match(pattern, name). "*" and "?" do not match a separator; a
\* character class matches any character it holds, the separator too.
FilepathMatch(pattern, name) ==
    IF pattern = <<>> THEN name = <<>>
    ELSE LET tok == Head(pattern)
             rst == Tail(pattern)
         IN  CASE tok = "*" ->
                    \E k \in 0..Len(name) :
                        /\ \A i \in 1..k : name[i] # "/"
                        /\ FilepathMatch(rst, SubSeq(name, k + 1, Len(name)))
               [] tok = "?" ->
                    name # <<>> /\ name[1] # "/" /\ FilepathMatch(rst, Tail(name))
               [] tok = NotA ->
                    name # <<>> /\ name[1] # "a" /\ FilepathMatch(rst, Tail(name))
               [] OTHER ->
                    name # <<>> /\ name[1] = tok /\ FilepathMatch(rst, Tail(name))

\* Patterns.matchFull
matchFull(p, name) ==
    \E i \in 1..Len(p) : FilepathMatch(p[i], name)

matchPrefixFull(p, prefix) == matchFull(p, prefix)

\* Patterns.matchPrefix
matchPrefix(p, prefix) ==
    LET parts == Split(prefix)
    IN  \E i \in 1..Len(p) :
            LET patternParts == Split(p[i])
            IN  /\ Len(patternParts) >= Len(parts)
                /\ \A j \in 1..Len(parts) : FilepathMatch(patternParts[j], parts[j])

\* Patterns.Match
Match(p, path, isDir) ==
    LET cleaned == Clean(path)
    IN  (isDir /\ matchPrefix(p, cleaned)) \/ (~isDir /\ matchFull(p, cleaned))

----------------------------------------------------------------------------
(* The github project and the two ways to get its tree *)

MaxPatterns == 1

MaxFaults == 1

\* The files a repository can hold.
RepoPaths == {<<"a">>, <<"a", "a">>, <<"a", "/", "a">>, <<"a", "/", "a", "/", "a">>}

\* The directories above path p, the root excluded.
DirsAbove(p) ==
    {SubSeq(p, 1, i - 1) : i \in {j \in 2..Len(p) : p[j] = "/"}}

\* The directories of a repository.
RepoDirs(repo) == UNION {DirsAbove(p) : p \in repo}

\* The repositories: no file is a directory too.
Repos == {repo \in SUBSET RepoPaths : repo # {} /\ repo \cap RepoDirs(repo) = {}}

\* project.path of newProject: empty, or a directory with the "/" suffix.
SubPaths(repo) == {<<>>} \cup {d \o <<"/">> : d \in {<<"a">>} \cap RepoDirs(repo)}

PatternSet == {<<"*">>, <<"a">>, <<"*", "/", "*">>, <<"a", NotA, "a">>}

RECURSIVE SeqsUpTo(_, _)
SeqsUpTo(S, n) ==
    IF n = 0 THEN {<<>>}
    ELSE SeqsUpTo(S, n - 1) \cup {Append(q, x) : q \in SeqsUpTo(S, n - 1), x \in S}

\* The lists of patterns a project is opened with.
Globs == SeqsUpTo(PatternSet, MaxPatterns)

\* Order of the bytes of a path: '/' is before 'a'.
Rank(c) == IF c = "/" THEN 0 ELSE 1

RECURSIVE PathLess(_, _)
PathLess(p, q) ==
    IF p = <<>> THEN q # <<>>
    ELSE IF q = <<>> THEN FALSE
    ELSE IF p[1] = q[1] THEN PathLess(Tail(p), Tail(q))
    ELSE Rank(p[1]) < Rank(q[1])

RECURSIVE SortPaths(_)
\* The paths of S in the order the API lists them.
SortPaths(S) ==
    IF S = {} THEN <<>>
    ELSE LET m == CHOOSE x \in S : \A y \in S \ {x} : PathLess(x, y)
         IN  <<m>> \o SortPaths(S \ {m})

\* The size and the content of the blob at a path: each file has its own.
BlobContent(p) == IF p = <<"a", "a">> THEN <<>> ELSE p

BlobSize(p) == Len(BlobContent(p))

\* Git.GetTree, recursive: every tree and blob of the repository.
GetTree(repo) ==
    LET entry(p) == [path |-> p,
                     type |-> IF p \in repo THEN "blob" ELSE "tree",
                     size |-> IF p \in repo THEN BlobSize(p) ELSE 0]
        paths == SortPaths(repo \cup RepoDirs(repo))
    IN  [i \in 1..Len(paths) |-> entry(paths[i])]

\* Repositories.GetContents: the file at root, or the entries of the
\* directory root.
GetContents(repo, root) ==
    LET dir      == TrimRight(root)
        inDir(p) == TrimRight(SplitDir(p)) = dir
        entry(p) == [path |-> p,
                     type |-> IF p \in repo THEN "file" ELSE "dir",
                     size |-> IF p \in repo THEN BlobSize(p) ELSE 0]
        paths    == SortPaths({p \in repo \cup RepoDirs(repo) : inDir(p)})
    IN  IF dir \in repo
        THEN [file |-> <<entry(dir)>>, entries |-> <<>>]
        ELSE [file |-> <<>>, entries |-> [i \in 1..Len(paths) |-> entry(paths[i])]]

\* contentLoader: gets the blob when the file is read.
contentLoader(sha) == [kind |-> "blob", data |-> sha, err |-> FALSE]

\* contentDownloadLoader: the download is done, the loader holds its result.
contentDownloadLoader(data, failed) ==
    [kind |-> "download", data |-> IF failed THEN <<>> ELSE data, err |-> failed]

\* contentFetchLoader: the content that came with the listing.
contentFetchLoader(data) == [kind |-> "fetch", data |-> data, err |-> FALSE]

\* getTree that skips no entry.
outsideNever(path, fsPath) == FALSE

\* getTree: with a subpath, an entry whose path does not begin with it is
\* skipped.
outside(path, fsPath) == fsPath # <<>> /\ ~HasPrefix(path, fsPath)

RECURSIVE getTreeEntries(_, _, _, _)
\* githubfs.getTree: the loop over the entries.
getTreeEntries(t, entries, fsPath, glob) ==
    IF entries = <<>> THEN [t |-> t, err |-> FALSE]
    ELSE LET entry   == Head(entries)
             skipped == outside(entry.path, fsPath)
             path    == IF fsPath # <<>> THEN TrimPrefix(entry.path, fsPath)
                        ELSE entry.path
             r       == IF entry.type = "tree"
                        THEN AddDir(t, path)
                        ELSE AddFile(t, path, entry.size, contentLoader(BlobContent(entry.path)))
         IN  IF skipped \/ ~Match(glob, path, entry.type = "tree")
             THEN getTreeEntries(t, Tail(entries), fsPath, glob)
             ELSE IF r.err
                  THEN [t |-> EmptyTree, err |-> TRUE]
                  ELSE getTreeEntries(r.t, Tail(entries), fsPath, glob)

\* githubfs.getTree, when the call of the API succeeds.
getTree(repo, fsPath, glob) ==
    getTreeEntries(EmptyTree, GetTree(repo), fsPath, glob)

----------------------------------------------------------------------------
(* prefetchTree: the recursive download of a project *)

\* errors: make(chan error), a channel without buffer. No goroutine ever
\* blocks on it: check sends and download receives in a select with a
\* default case, so a send succeeds only when the buffer has room.
ChanCap == 0

NilErr == [op |-> "nil", path |-> <<>>]

Err(op, path) == [op |-> op, path |-> path]

NotReturned == [returned |-> FALSE, tree |-> FALSE, err |-> NilErr]

\* The frame of a call of recursive(ctx, root).
Frame(root) == [root |-> root, state |-> "list", entries |-> <<>>, file |-> <<>>]

\* prefetchTree: the recursiveGetContents it makes, for the project it is
\* called on.
newDownloader(repo, fsPath, glob) ==
    [repo |-> repo, path |-> fsPath, glob |-> glob,
     pc |-> "start", stack |-> <<>>, wg |-> 0, errors |-> <<>>,
     checks |-> <<>>, reported |-> <<>>, logged |-> 0, failed |-> {},
     result |-> NotReturned]

InitEager ==
    /\ tree = EmptyTree
    /\ lastOp = NoOp
    /\ lastErr = FALSE
    /\ nAdds = 0
    /\ FilesIdle
    /\ lastCall = NoCall
    /\ binfsData = NoData
    /\ \E repo \in Repos : \E fsPath \in SubPaths(repo) : \E glob \in Globs :
          gc = newDownloader(repo, fsPath, glob)

\* recursiveGetContents.check
check(g, err) ==
    IF err = NilErr THEN g
    ELSE IF Len(g.errors) < ChanCap
         THEN [g EXCEPT !.reported = Append(@, err), !.errors = Append(@, err)]
         ELSE [g EXCEPT !.reported = Append(@, err), !.logged = @ + 1]

\* The top frame of the stack, changed.
SetTop(g, frame) == [g EXCEPT !.stack = Append(SubSeq(@, 1, Len(@) - 1), frame)]

Top(g) == g.stack[Len(g.stack)]

\* recursive that returns without the deferred wg.Done.
ReturnNoDone(g, err) ==
    LET popped == [g EXCEPT !.stack = SubSeq(@, 1, Len(@) - 1)]
    IN  IF popped.stack = <<>>
        THEN [check(popped, err) EXCEPT !.pc = "wait"]
        ELSE [popped EXCEPT !.checks = Append(@, err)]

\* recursive returns err: the deferred wg.Done, then the caller's check.
\* download checks in its own goroutine; recursive has evaluated the call
\* as the argument of "go gc.check(...)" and starts a goroutine for check.
Return(g, err) ==
    LET popped == [g EXCEPT !.stack = SubSeq(@, 1, Len(@) - 1), !.wg = @ - 1]
    IN  IF popped.stack = <<>>
        THEN [check(popped, err) EXCEPT !.pc = "wait"]
        ELSE [popped EXCEPT !.checks = Append(@, err)]

Faults(g) == Cardinality(g.failed)

EagerIdle == UNCHANGED <<lastOp, lastErr, nAdds, fileVars, openVars>>

\* f.content of file f of the project's tree: nil until a load has stored it.
Cached(f) == IF f \in DOMAIN content THEN content[f] ELSE Nil

\* The number of calls of the loader of file f.
Calls(f) == IF f \in DOMAIN loadCalls THEN loadCalls[f] ELSE 0

\* The loader of a file of the project's tree, called with a context that
\* is not done. remote tells whether it calls the remote API: contentLoader
\* gets the blob (and may fail), the two others return what they hold.
RunLoader(load, remoteFails) ==
    CASE load.kind = "blob" ->
            IF remoteFails
            THEN [buf |-> Nil, err |-> TRUE, remote |-> TRUE]
            ELSE [buf |-> load.data, err |-> FALSE, remote |-> TRUE]
      [] load.kind = "download" ->
            IF load.err
            THEN [buf |-> Nil, err |-> TRUE, remote |-> FALSE]
            ELSE [buf |-> load.data, err |-> FALSE, remote |-> FALSE]
      [] load.kind = "fetch" ->
            [buf |-> load.data, err |-> FALSE, remote |-> FALSE]

\* A file of the tree is opened and read to its end: loadContent, then the
\* reads of the bytes.Reader.
ReadFile ==
    /\ gc.result.returned
    /\ gc.result.tree
    /\ \E f \in {p \in DOMAIN tree : tree[p].kind = "file"} :
          IF IsCached(Cached(f))
          THEN /\ lastRes' = [op |-> "ReadAll", path |-> f, err |-> FALSE,
                              data |-> Bytes(Cached(f)), remote |-> FALSE]
               /\ UNCHANGED <<content, loadCalls, gc>>
          ELSE /\ Calls(f) < MaxLoads
               /\ \E remoteFails \in BOOLEAN :
                     LET o == RunLoader(tree[f].load, remoteFails)
                     IN  /\ remoteFails => o.remote /\ gc.faults < MaxFaults
                         /\ content' = (f :> StoreContent(Cached(f), o)) @@ content
                         /\ loadCalls' = (f :> Calls(f) + 1) @@ loadCalls
                         /\ lastRes' = [op |-> "ReadAll", path |-> f, err |-> o.err,
                                        data |-> IF o.err THEN <<>> ELSE Bytes(o.buf),
                                        remote |-> o.remote]
                         /\ gc' = IF o.remote
                                  THEN [gc EXCEPT !.blobs = (f :> Calls(f) + 1) @@ @,
                                                  !.faults = IF remoteFails THEN @ + 1 ELSE @]
                                  ELSE gc
    /\ UNCHANGED <<treeVars, openVars, fmu, handles, readers, cancelled, threads>>

\* download: wg.Add(1) and the call of recursive on the project's path.
Download ==
    /\ gc.pc = "start"
    /\ gc' = [gc EXCEPT !.pc = "run", !.wg = @ + 1, !.stack = <<Frame(gc.path)>>]
    /\ UNCHANGED tree
    /\ EagerIdle

\* recursive: GetContents succeeds.
ListDir ==
    /\ gc.pc = "run"
    /\ Top(gc).state = "list"
    /\ LET listing == GetContents(gc.repo, Top(gc).root)
       IN  gc' = SetTop(gc, [Top(gc) EXCEPT !.state = "entries",
                                            !.entries = listing.entries,
                                            !.file = listing.file])
    /\ UNCHANGED tree
    /\ EagerIdle

\* recursive: GetContents fails.
ListFails ==
    /\ gc.pc = "run"
    /\ Top(gc).state = "list"
    /\ Faults(gc) < MaxFaults
    /\ LET err == Err("get-contents", Top(gc).root)
       IN  gc' = Return([gc EXCEPT !.failed = @ \cup {err}], err)
    /\ UNCHANGED tree
    /\ EagerIdle

\* recursive: an entry that is a directory.
VisitDir ==
    /\ gc.pc = "run"
    /\ Top(gc).state = "entries"
    /\ Top(gc).entries # <<>>
    /\ LET entry  == Head(Top(gc).entries)
           fsPath == TrimPrefix(entry.path, gc.path)
           next   == SetTop(gc, [Top(gc) EXCEPT !.entries = Tail(@)])
           r      == AddDir(tree, fsPath)
           err    == Err("adding", fsPath)
       IN  /\ entry.type = "dir"
           /\ IF ~Match(gc.glob, fsPath, TRUE)
              THEN gc' = next /\ UNCHANGED tree
              ELSE /\ tree' = r.t
                   /\ gc' = IF r.err
                            THEN Return([gc EXCEPT !.failed = @ \cup {err}], err)
                            ELSE [next EXCEPT !.wg = @ + 1,
                                              !.stack = Append(@, Frame(entry.path))]
    /\ EagerIdle

\* recursive: an entry that is a file, and downloadContent called on it as
\* the argument of "go gc.check(...)".
VisitFile ==
    /\ gc.pc = "run"
    /\ Top(gc).state = "entries"
    /\ Top(gc).entries # <<>>
    /\ LET entry  == Head(Top(gc).entries)
           fsPath == TrimPrefix(entry.path, gc.path)
           next   == SetTop(gc, [Top(gc) EXCEPT !.entries = Tail(@)])
       IN  /\ entry.type = "file"
           /\ IF ~Match(gc.glob, fsPath, FALSE)
              THEN gc' = next /\ UNCHANGED tree
              ELSE \E failed \in (IF Faults(gc) < MaxFaults THEN BOOLEAN ELSE {FALSE}) :
                      LET loader == contentDownloadLoader(BlobContent(entry.path), failed)
                          r      == AddFile(tree, fsPath, entry.size, loader)
                          addErr == Err("adding", fsPath)
                          fails  == (IF failed THEN {Err("download", entry.path)} ELSE {})
                                       \cup (IF r.err THEN {addErr} ELSE {})
                      IN  /\ tree' = r.t
                          /\ gc' = [next EXCEPT
                                       !.failed = @ \cup fails,
                                       !.checks = Append(@, IF r.err THEN addErr ELSE NilErr)]
    /\ EagerIdle

\* recursive: after the entries, the file that GetContents returned for a
\* root that is a file, and the return.
FinishDir ==
    /\ gc.pc = "run"
    /\ Top(gc).state = "entries"
    /\ Top(gc).entries = <<>>
    /\ IF Top(gc).file = <<>>
       THEN gc' = Return(gc, NilErr) /\ UNCHANGED tree
       ELSE LET file == Top(gc).file[1]
                path == TrimPrefix(file.path, gc.path)
                r    == AddFile(tree, path, file.size, contentFetchLoader(BlobContent(file.path)))
                err  == Err("adding", path)
            IN  IF ~Match(gc.glob, path, FALSE)
                THEN gc' = Return(gc, NilErr) /\ UNCHANGED tree
                ELSE /\ tree' = r.t
                     /\ gc' = IF r.err
                              THEN Return([gc EXCEPT !.failed = @ \cup {err}], err)
                              ELSE Return(gc, NilErr)
    /\ EagerIdle

\* download: gc.wg.Wait()
Wait ==
    /\ gc.pc = "wait"
    /\ gc.wg = 0
    /\ gc' = [gc EXCEPT !.pc = "receive"]
    /\ UNCHANGED tree
    /\ EagerIdle

\* download: the select on gc.errors, and prefetchTree's return.
Receive ==
    /\ gc.pc = "receive"
    /\ gc' = IF gc.errors # <<>>
             THEN [gc EXCEPT !.pc = "done", !.errors = Tail(@),
                             !.result = [returned |-> TRUE, tree |-> FALSE,
                                         err |-> Head(gc.errors)]]
             ELSE [gc EXCEPT !.pc = "done",
                             !.result = [returned |-> TRUE, tree |-> TRUE,
                                         err |-> NilErr]]
    /\ UNCHANGED tree
    /\ EagerIdle

\* A goroutine started by "go gc.check(...)" runs check.
Check ==
    /\ \E i \in 1..Len(gc.checks) :
          gc' = check([gc EXCEPT !.checks = SubSeq(@, 1, i - 1) \o SubSeq(@, i + 1, Len(@))],
                      gc.checks[i])
    /\ UNCHANGED tree
    /\ EagerIdle

NextEager ==
    \/ Download
    \/ ListDir
    \/ ListFails
    \/ VisitDir
    \/ VisitFile
    \/ FinishDir
    \/ Wait
    \/ Receive
    \/ Check
    \/ ReadFile

SpecEager == InitEager /\ [][NextEager]_vars

\* The steps of the goroutine that called prefetchTree: every call of the
\* remote API returns, with a result or with an error.
Prefetch ==
    \/ Download
    \/ ListDir
    \/ ListFails
    \/ VisitDir
    \/ VisitFile
    \/ FinishDir
    \/ Wait
    \/ Receive

\* The Go scheduler runs the calling goroutine and every goroutine started
\* for check.
SpecEagerLive ==
    InitEager /\ [][NextEager]_vars /\ WF_vars(Prefetch) /\ WF_vars(Check)

----------------------------------------------------------------------------
(* prefetchTree step by step: the remote calls and gc.mu *)

\* No insertion is under way.
NoInsert == [kind |-> "none", path |-> <<>>, size |-> 0, load |-> "none", err |-> FALSE]

\* The recursiveGetContents with its mutex, and the insertion the running
\* call is making.
newRecursiveGetContents(repo, fsPath, glob) ==
    newDownloader(repo, fsPath, glob) @@ [mu |-> Free, ins |-> NoInsert]

\* project.path of a project whose subpath names a file of the repository.
FilePathsOf(repo) == {f \o <<"/">> : f \in {<<"a">>} \cap repo}

InitLocked ==
    /\ tree = EmptyTree
    /\ lastOp = NoOp
    /\ lastErr = FALSE
    /\ nAdds = 0
    /\ FilesIdle
    /\ lastCall = NoCall
    /\ binfsData = NoData
    /\ \E repo \in Repos : \E fsPath \in SubPaths(repo) \cup FilePathsOf(repo) :
          \E glob \in Globs : gc = newRecursiveGetContents(repo, fsPath, glob)

\* gc.mu.Lock() that does not take the mutex.
lockNothing(mu, task) == mu

\* gc.mu.Lock() by a task, on a free mutex.
lock(mu, task) == task

\* gc.mu.Unlock()
unlock(mu) == Free

\* The entry the loop of recursive is at, and its path in the tree.
Entry == Head(Top(gc).entries)

EntryPath == TrimPrefix(Entry.path, gc.path)

\* The loop of recursive is at an entry.
AtEntry ==
    /\ gc.pc = "run"
    /\ Top(gc).state = "entries"
    /\ Top(gc).entries # <<>>

\* recursive: the call of GetContents is sent.
GetContentsCall ==
    /\ gc.pc = "run"
    /\ Top(gc).state = "list"
    /\ gc' = SetTop(gc, [Top(gc) EXCEPT !.state = "listing"])
    /\ UNCHANGED tree
    /\ EagerIdle

\* recursive: GetContents returns the listing.
GetContentsReturns ==
    /\ gc.pc = "run"
    /\ Top(gc).state = "listing"
    /\ LET listing == GetContents(gc.repo, Top(gc).root)
       IN  gc' = SetTop(gc, [Top(gc) EXCEPT !.state = "entries",
                                            !.entries = listing.entries,
                                            !.file = listing.file])
    /\ UNCHANGED tree
    /\ EagerIdle

\* recursive: GetContents returns an error.
GetContentsFails ==
    /\ gc.pc = "run"
    /\ Top(gc).state = "listing"
    /\ Faults(gc) < MaxFaults
    /\ LET err == Err("get-contents", Top(gc).root)
       IN  gc' = Return([gc EXCEPT !.failed = @ \cup {err}], err)
    /\ UNCHANGED tree
    /\ EagerIdle

\* recursive: an entry that the patterns do not match.
SkipEntry ==
    /\ AtEntry
    /\ ~Match(gc.glob, EntryPath, Entry.type = "dir")
    /\ gc' = SetTop(gc, [Top(gc) EXCEPT !.entries = Tail(@)])
    /\ UNCHANGED tree
    /\ EagerIdle

\* recursive: gc.mu.Lock() before AddDir for an entry that is a directory.
LockDir ==
    /\ AtEntry
    /\ Entry.type = "dir"
    /\ Match(gc.glob, EntryPath, TRUE)
    /\ gc.mu = Free
    /\ gc' = [SetTop(gc, [Top(gc) EXCEPT !.state = "locked"]) EXCEPT
                 !.mu = lock(@, "recursive"),
                 !.ins = [NoInsert EXCEPT !.kind = "dir", !.path = EntryPath]]
    /\ UNCHANGED tree
    /\ EagerIdle

\* downloadContent: wg.Add(1) by recursive, then contentDownloadLoader sends
\* the request for the file.
DownloadCall ==
    /\ AtEntry
    /\ Entry.type = "file"
    /\ Match(gc.glob, EntryPath, FALSE)
    /\ gc' = [SetTop(gc, [Top(gc) EXCEPT !.state = "downloading"]) EXCEPT !.wg = @ + 1]
    /\ UNCHANGED tree
    /\ EagerIdle

\* downloadContent: the download returns, with the content or with an error
\* that the loader keeps.
DownloadReturns ==
    /\ gc.pc = "run"
    /\ Top(gc).state = "downloading"
    /\ \E failed \in (IF Faults(gc) < MaxFaults THEN BOOLEAN ELSE {FALSE}) :
          gc' = [SetTop(gc, [Top(gc) EXCEPT !.state = "downloaded"]) EXCEPT
                    !.failed = @ \cup (IF failed THEN {Err("download", Entry.path)} ELSE {}),
                    !.ins = [kind |-> "file", path |-> EntryPath, size |-> Entry.size,
                             load |-> contentDownloadLoader(BlobContent(Entry.path), failed),
                             err  |-> FALSE]]
    /\ UNCHANGED tree
    /\ EagerIdle

\* downloadContent: gc.mu.Lock() before AddFile.
LockFile ==
    /\ gc.pc = "run"
    /\ Top(gc).state = "downloaded"
    /\ gc.mu = Free
    /\ gc' = [SetTop(gc, [Top(gc) EXCEPT !.state = "locked"]) EXCEPT
                 !.mu = lock(@, "downloadContent")]
    /\ UNCHANGED tree
    /\ EagerIdle

\* recursive, after the entries: gc.mu.Lock() before AddFile for the file
\* that GetContents returned for a root that is a file.
LockRootFile ==
    /\ gc.pc = "run"
    /\ Top(gc).state = "entries"
    /\ Top(gc).entries = <<>>
    /\ Top(gc).file # <<>>
    /\ LET file == Top(gc).file[1]
           path == TrimPrefix(file.path, gc.path)
       IN  /\ Match(gc.glob, path, FALSE)
           /\ gc.mu = Free
           /\ gc' = [SetTop(gc, [Top(gc) EXCEPT !.state = "locked"]) EXCEPT
                        !.mu = lock(@, "recursive"),
                        !.ins = [kind |-> "rootfile", path |-> path, size |-> file.size,
                                 load |-> contentFetchLoader(BlobContent(file.path)),
                                 err  |-> FALSE]]
    /\ UNCHANGED tree
    /\ EagerIdle

\* gc.tree.AddDir or gc.tree.AddFile, called between Lock and Unlock.
Insert ==
    /\ gc.pc = "run"
    /\ Top(gc).state = "locked"
    /\ LET r == IF gc.ins.kind = "dir"
                THEN AddDir(tree, gc.ins.path)
                ELSE AddFile(tree, gc.ins.path, gc.ins.size, gc.ins.load)
       IN  /\ tree' = r.t
           /\ gc' = [SetTop(gc, [Top(gc) EXCEPT !.state = "added"]) EXCEPT !.ins.err = r.err]
    /\ EagerIdle

\* gc.mu.Unlock() and what follows it: recursive starts the call for the
\* directory, or returns the error; downloadContent returns, its deferred
\* wg.Done runs and a goroutine is started for check.
Unlock ==
    /\ gc.pc = "run"
    /\ Top(gc).state = "added"
    /\ LET err      == Err("adding", gc.ins.path)
           unlocked == [gc EXCEPT !.mu = unlock(@), !.ins = NoInsert,
                                  !.failed = IF gc.ins.err THEN @ \cup {err} ELSE @]
           next     == SetTop(unlocked, [Top(gc) EXCEPT !.state = "entries",
                                                        !.entries = Tail(@)])
       IN  gc' = CASE gc.ins.kind = "dir" ->
                         IF gc.ins.err
                         THEN Return(unlocked, err)
                         ELSE [next EXCEPT !.wg = @ + 1,
                                           !.stack = Append(@, Frame(Entry.path))]
                   [] gc.ins.kind = "file" ->
                         [next EXCEPT !.wg = @ - 1,
                                      !.checks = Append(@, IF gc.ins.err THEN err ELSE NilErr)]
                   [] OTHER ->
                         Return(unlocked, IF gc.ins.err THEN err ELSE NilErr)
    /\ UNCHANGED tree
    /\ EagerIdle

\* recursive, after the entries: no file came with the listing, or the
\* patterns do not match it.
ReturnNil ==
    /\ gc.pc = "run"
    /\ Top(gc).state = "entries"
    /\ Top(gc).entries = <<>>
    /\ IF Top(gc).file = <<>>
       THEN TRUE
       ELSE ~Match(gc.glob, TrimPrefix(Top(gc).file[1].path, gc.path), FALSE)
    /\ gc' = Return(gc, NilErr)
    /\ UNCHANGED tree
    /\ EagerIdle

NextLocked ==
    \/ Download
    \/ GetContentsCall
    \/ GetContentsReturns
    \/ GetContentsFails
    \/ SkipEntry
    \/ LockDir
    \/ DownloadCall
    \/ DownloadReturns
    \/ LockFile
    \/ LockRootFile
    \/ Insert
    \/ Unlock
    \/ ReturnNil
    \/ Wait
    \/ Receive
    \/ Check

SpecLocked == InitLocked /\ [][NextLocked]_vars

----------------------------------------------------------------------------
(* getTree: the construction from one listing *)

\* New without prefetch: the githubfs that newGithubFS makes.
newGithubFS(repo, fsPath, glob) ==
    [repo |-> repo, path |-> fsPath, glob |-> glob, pc |-> "start",
     listings |-> 0, faults |-> 0, blobs |-> <<>>, result |-> NotReturned]

InitMeta ==
    /\ tree = EmptyTree
    /\ lastOp = NoOp
    /\ lastErr = FALSE
    /\ nAdds = 0
    /\ FilesIdle
    /\ lastCall = NoCall
    /\ binfsData = NoData
    /\ \E repo \in Repos : \E fsPath \in SubPaths(repo) : \E glob \in Globs :
          gc = newGithubFS(repo, fsPath, glob)

\* getTree: Git.GetTree succeeds and the tree is made of its entries.
GetTreeCall ==
    /\ gc.pc = "start"
    /\ LET r == getTree(gc.repo, gc.path, gc.glob)
       IN  /\ tree' = r.t
           /\ gc' = [gc EXCEPT !.pc = "done", !.listings = @ + 1,
                               !.result = [returned |-> TRUE, tree |-> ~r.err,
                                           err |-> IF r.err THEN Err("adding", <<>>)
                                                   ELSE NilErr]]
    /\ UNCHANGED <<lastOp, lastErr, nAdds, fileVars, openVars>>

\* getTree: Git.GetTree fails.
GetTreeFails ==
    /\ gc.pc = "start"
    /\ gc.faults < MaxFaults
    /\ gc' = [gc EXCEPT !.pc = "done", !.listings = @ + 1, !.faults = @ + 1,
                        !.result = [returned |-> TRUE, tree |-> FALSE,
                                    err |-> Err("get git tree", <<>>)]]
    /\ UNCHANGED <<treeVars, fileVars, openVars>>

NextMeta ==
    \/ GetTreeCall
    \/ GetTreeFails
    \/ ReadFile

SpecMeta == InitMeta /\ [][NextMeta]_vars

----------------------------------------------------------------------------
(* internal/githubfs: the project identifier, newProject and verifyRef *)

\* An identifier is a sequence of tokens. "/", "@", "#" and "." are the
\* characters the expressions tell apart, "1" is a digit, "v" the letter v;
\* "github.com", "github", "heads", "tags" and "x" are runs of other
\* characters.

MaxBody == 5

MaxGroups == 4

\* reSemver: ^v?\d+(\.\d+){0,2}$ allows up to this many numeric groups.
SemverGroups == 3

Host == <<"github.com", "/">>

\* Length of the longest prefix of s that holds no token of stop.
RunLen(s, stop) ==
    IF \E i \in 1..Len(s) : s[i] \in stop
    THEN (CHOOSE i \in 1..Len(s) : s[i] \in stop /\ \A j \in 1..(i - 1) : s[j] \notin stop) - 1
    ELSE Len(s)

Drop(s, n) == SubSeq(s, n + 1, Len(s))

NoMatch == [ok |-> FALSE, owner |-> <<>>, repo |-> <<>>, path |-> <<>>, ref |-> <<>>]

\* reGithubProject.FindStringSubmatch:
\*   ^github\.com/([^@/]+)/([^@/]+)(/([^@]*))?(@([^#]+))?$
\* No class holds the character that ends it, so the match is found by one
\* scan from the left.
reGithubProject(projectName) ==
    IF ~HasPrefix(projectName, Host) THEN NoMatch
    ELSE LET s1 == Drop(projectName, Len(Host))
             n1 == RunLen(s1, {"@", "/"})
             s2 == Drop(s1, n1 + 1)
             n2 == RunLen(s2, {"@", "/"})
             s3 == Drop(s2, n2)
             hasPath == s3 # <<>> /\ s3[1] = "/"
             s4 == IF hasPath THEN Tail(s3) ELSE s3
             n4 == IF hasPath THEN RunLen(s4, {"@"}) ELSE 0
             s5 == Drop(s4, n4)
             ref == IF s5 = <<>> THEN <<>> ELSE Tail(s5)
         IN  IF \/ n1 = 0
                \/ n1 = Len(s1)
                \/ s1[n1 + 1] # "/"
                \/ n2 = 0
                \/ (s5 # <<>> /\ (ref = <<>> \/ \E i \in 1..Len(ref) : ref[i] = "#"))
             THEN NoMatch
             ELSE [ok |-> TRUE, owner |-> SubSeq(s1, 1, n1), repo |-> SubSeq(s2, 1, n2),
                   path |-> SubSeq(s4, 1, n4), ref |-> ref]

RECURSIVE SplitDots(_)
\* The parts of s between its dots.
SplitDots(s) ==
    LET n == RunLen(s, {"."})
    IN  IF n = Len(s) THEN <<s>>
        ELSE <<SubSeq(s, 1, n)>> \o SplitDots(Drop(s, n + 1))

reSemverNever(ref) == FALSE

\* reSemver.MatchString: ^v?\d+(\.\d+){0,2}$
reSemver(ref) ==
    LET digits == IF ref # <<>> /\ ref[1] = "v" THEN Tail(ref) ELSE ref
        groups == SplitDots(digits)
    IN  /\ Len(groups) <= SemverGroups
        /\ \A i \in 1..Len(groups) :
              groups[i] # <<>> /\ \A j \in 1..Len(groups[i]) : groups[i][j] = "1"

verifyRefNone(ref) == FALSE

\* verifyRef: whether it returns an error.
verifyRef(ref) ==
    ref # <<>> /\ ~HasPrefix(ref, <<"heads", "/">>) /\ ~HasPrefix(ref, <<"tags", "/">>)

\* newProject: the project and whether an error is returned with it.
newProject(projectName) ==
    LET matches == reGithubProject(projectName)
        path    == IF matches.path # <<>> /\ matches.path[Len(matches.path)] # "/"
                   THEN matches.path \o <<"/">>
                   ELSE matches.path
        ref     == IF reSemver(matches.ref) THEN <<"tags", "/">> \o matches.ref
                   ELSE matches.ref
    IN  IF ~matches.ok
        THEN [err |-> TRUE, nil |-> TRUE, owner |-> <<>>, repo |-> <<>>,
              path |-> <<>>, ref |-> <<>>]
        ELSE [err |-> verifyRef(ref), nil |-> FALSE, owner |-> matches.owner,
              repo |-> matches.repo, path |-> path, ref |-> ref]

\* githubfs.Match
githubfsMatch(projectName) == reGithubProject(projectName).ok

RECURSIVE Dotted(_)
\* n numeric groups, dot-separated.
Dotted(n) == IF n = 0 THEN <<>> ELSE IF n = 1 THEN <<"1">> ELSE <<"1", ".">> \o Dotted(n - 1)

\* The identifiers handed to newProject: a host, a body of names and
\* separators, and possibly "@" with a ref made of a prefix, a version-like
\* middle and a suffix.
IdHosts == {Host, <<"github", "/">>, <<"github.com">>, <<"x", "/">>}

IdBodies == SeqsUpTo({"x", "/"}, MaxBody)

IdRefPrefixes == {<<>>, <<"heads", "/">>, <<"tags", "/">>, <<"heads">>, <<"x">>, <<"/">>}

IdRefMiddles ==
    {<<>>, <<"x">>, <<"v">>}
        \cup {v \o Dotted(n) : v \in {<<>>, <<"v">>}, n \in 1..MaxGroups}
        \cup {<<"1", "1">>, <<"v", "v", "1">>, <<"1", ".">>, <<"v", "1", ".">>, <<"1", ".", ".", "1">>}

IdRefSuffixes == {<<>>, <<"#">>, <<"#", "x">>, <<"@", "x">>, <<"x">>}

IdRefs ==
    {<<>>} \cup {<<"@">> \o p \o m \o s :
                    p \in IdRefPrefixes, m \in IdRefMiddles, s \in IdRefSuffixes}

Ids == {h \o b \o r : h \in IdHosts, b \in IdBodies, r \in IdRefs}

\* newProject is about to be called with an identifier.
InitParse ==
    /\ tree = EmptyTree
    /\ lastOp = NoOp
    /\ lastErr = FALSE
    /\ nAdds = 0
    /\ FilesIdle
    /\ gc = NoBuild
    /\ lastCall \in {[op |-> "call", name |-> projectName] : projectName \in Ids}
    /\ binfsData = NoData

CallNewProject ==
    /\ lastCall.op = "call"
    /\ lastCall' = [op |-> "newProject", name |-> lastCall.name,
                    p |-> newProject(lastCall.name)]
    /\ UNCHANGED <<treeVars, fileVars, buildVars, binfsData>>

NextParse == CallNewProject

SpecParse == InitParse /\ [][NextParse]_vars

----------------------------------------------------------------------------
(* gitfs.New, fsutil.Glob and the registry of internal/binfs *)

MaxRegistered == 1

\* The projects New is called with: a github project, one with a ref that
\* verifyRef refuses, and one of another host.
NewProjects ==
    {Host \o <<"x", "/", "x">>, Host \o <<"x", "/", "x", "@", "x">>, <<"x", "/", "x", "/", "x">>}

\* An http.FileSystem: its files, and the patterns of the glob wrapper
\* around it (none: it is not wrapped).
FS(files) == [files |-> files, patterns |-> <<>>]

NoFS == [files |-> {}, patterns |-> <<>>]

\* fsutil.Glob: without patterns the filesystem itself is returned.
Glob(fs, patterns) ==
    IF Len(patterns) = 0 THEN fs ELSE [fs EXCEPT !.patterns = patterns]

\* Open of a clean relative name, "" being the root: whether it succeeds.
\* The wrapper of fsutil.Glob opens the file, then matches
\* filepath.Join(g.root, name) as a file or as a directory.
Open(fs, name) ==
    LET path  == IF name = <<>> THEN <<>> ELSE Clean(name)
        isDir == name = <<>> \/ name \in RepoDirs(fs.files)
    IN  /\ name = <<>> \/ name \in fs.files \/ name \in RepoDirs(fs.files)
        /\ fs.patterns = <<>> \/ Match(fs.patterns, path, isDir)

\* The files a filesystem gives to who opens them by name.
Exposed(fs) == {f \in fs.files : Open(fs, f)}

\* binfs encode: the files the walk from the root reaches, each directory
\* on the way being opened.
Walked(fs) ==
    {f \in fs.files : Open(fs, f) /\ \A d \in DirsAbove(f) \cup {<<>>} : Open(fs, d)}

binfsMatchNever(project) == FALSE

\* binfs.Match
binfsMatch(project) == project \in DOMAIN binfsData

\* binfs.Get
binfsGet(project) == binfsData[project].fs

\* binfs.Register with the data that cmd/gitfs generated from a checkout:
\* provider opens the project with OptLocal(".") and
\* OptGlob(c.GlobPatterns()...), encode walks it. The patterns of the
\* generation are kept beside the filesystem. The generated file registers
\* in its init function, before any call of New.
Register ==
    /\ lastCall = NoCall
    /\ Cardinality(DOMAIN binfsData) < MaxRegistered
    /\ \E project \in NewProjects \ DOMAIN binfsData, checkout \in Repos, globPatterns \in Globs :
          LET fs == Glob(FS(checkout), globPatterns)
          IN  /\ Open(fs, <<>>)
              /\ binfsData' = binfsData @@ (project :> [fs |-> FS(Walked(fs)),
                                              globPatterns |-> globPatterns])
    /\ UNCHANGED <<treeVars, fileVars, buildVars, lastCall>>

\* What New returns: the source it chose, the calls it made to the
\* sources, the error, and the filesystem (NoFS with an error).
Returned(source, calls, err, fs) ==
    [source |-> source, calls |-> calls, err |-> err, fs |-> IF err THEN NoFS ELSE fs]

\* githubfs.New without prefetch: newProject, then getTree; remoteOk is
\* whether the calls to the remote succeed.
githubfsNew(projectName, glob, repo, remoteOk) ==
    LET p == newProject(projectName)
        r == getTree(repo, p.path, glob)
    IN  IF p.err THEN Returned("github", <<"binfs.Match", "githubfs.Match", "githubfs.New">>, TRUE, NoFS)
        ELSE Returned("github", <<"binfs.Match", "githubfs.Match", "githubfs.New", "remote">>,
                      ~remoteOk \/ r.err,
                      FS({f \in DOMAIN r.t : r.t[f].kind = "file"}))

\* gitfs.New: c is the config the options made; found is whether
\* localfs.New finds a checkout of the project at c.localPath, repo the
\* files of the checkout and of the remote repository.
New(project, c, found, repo, remoteOk) ==
    IF c.localPath # <<>>
    THEN Returned("local", <<"localfs.New">>, ~found, Glob(FS(repo), c.patterns))
    ELSE IF binfsMatch(project)
    THEN Returned("binary", <<"binfs.Match", "binfs.Get">>, FALSE, binfsGet(project))
    ELSE IF githubfsMatch(project)
    THEN githubfsNew(project, c.patterns, repo, remoteOk)
    ELSE Returned("none", <<"binfs.Match", "githubfs.Match">>, TRUE, NoFS)

Range(s) == {s[i] : i \in 1..Len(s)}

\* The calls of New in a program whose binary was generated: the patterns
\* of the generation are the union of the patterns of the calls, or none
\* when a call has none (binfs.Config).
Generated(project, patterns) ==
    project \in DOMAIN binfsData =>
        \/ binfsData[project].globPatterns = <<>>
        \/ patterns # <<>> /\ Range(patterns) \subseteq Range(binfsData[project].globPatterns)

InitNew ==
    /\ tree = EmptyTree
    /\ lastOp = NoOp
    /\ lastErr = FALSE
    /\ nAdds = 0
    /\ FilesIdle
    /\ gc = NoBuild
    /\ lastCall = NoCall
    /\ binfsData = NoData

\* A call of New by the program. New keeps nothing from one call to the
\* next, so the call that is followed is the first one.
CallNew ==
    /\ lastCall = NoCall
    /\ \E project \in NewProjects, localPath \in {<<>>, <<".">>}, patterns \in Globs,
          found \in BOOLEAN, repo \in Repos, remoteOk \in BOOLEAN :
          /\ Generated(project, patterns)
          /\ lastCall' = [op |-> "New", name |-> project, localPath |-> localPath,
                          patterns |-> patterns,
                          r |-> New(project, [localPath |-> localPath, patterns |-> patterns],
                                    found, repo, remoteOk)]
    /\ UNCHANGED <<treeVars, fileVars, buildVars, binfsData>>

NextNew == Register \/ CallNew

SpecNew == InitNew /\ [][NextNew]_vars

----------------------------------------------------------------------------
(* githubfs.New without prefetch: newGithubFS, then getTree *)

\* The identifiers New is called with: without ref, with a branch, with a
\* bare version, with a ref that verifyRef refuses, and of another host.
CreateNames ==
    {Host \o <<"x", "/", "x">>,
     Host \o <<"x", "/", "x", "@", "heads", "/", "x">>,
     Host \o <<"x", "/", "x", "@", "1">>,
     Host \o <<"x", "/", "x", "@", "x">>,
     <<"x", "/", "x", "/", "x">>}

\* What repo.GetDefaultBranch() can return.
DefaultBranches == {<<"master">>, <<"x">>}

\* New is called: nothing is parsed and no remote call is made yet.
\* repoCalls counts the calls of Repositories.Get.
Creating(projectName, repo, glob) ==
    [name |-> projectName, repo |-> repo, glob |-> glob,
     pc |-> "new", ref |-> <<>>, repoCalls |-> 0, path |-> <<>>,
     listings |-> 0, faults |-> 0, blobs |-> <<>>, result |-> NotReturned]

\* The githubfs is made: New goes on with getTree, on the record of that
\* construction, which keeps name, ref and repoCalls.
Created(g, ref, repoCalls) ==
    newGithubFS(g.repo, g.path, g.glob)
        @@ [name |-> g.name, ref |-> ref, repoCalls |-> repoCalls]

InitCreate ==
    /\ tree = EmptyTree
    /\ lastOp = NoOp
    /\ lastErr = FALSE
    /\ nAdds = 0
    /\ FilesIdle
    /\ lastCall = NoCall
    /\ binfsData = NoData
    /\ \E projectName \in CreateNames, repo \in Repos, glob \in Globs :
          gc = Creating(projectName, repo, glob)

refEmptyNever(ref) == FALSE

\* The test fs.ref == "" of newGithubFS.
refEmpty(ref) == ref = <<>>

\* newGithubFS up to the test of fs.ref: newProject fails, or the ref is
\* given, or the default branch has to be asked for.
ParseProject ==
    /\ gc.pc = "new"
    /\ LET project == newProject(gc.name)
       IN  gc' = IF project.err
                 THEN [gc EXCEPT !.pc = "failed",
                                 !.result = [returned |-> TRUE, tree |-> FALSE,
                                             err |-> Err("bad project", <<>>)]]
                 ELSE IF refEmpty(project.ref)
                 THEN [gc EXCEPT !.pc = "getRepo"]
                 ELSE Created(gc, project.ref, gc.repoCalls)
    /\ UNCHANGED <<treeVars, fileVars, openVars>>

\* Repositories.Get succeeds: the ref is heads/ and the default branch.
GetRepository ==
    /\ gc.pc = "getRepo"
    /\ \E branch \in DefaultBranches :
          gc' = Created(gc, <<"heads", "/">> \o branch, gc.repoCalls + 1)
    /\ UNCHANGED <<treeVars, fileVars, openVars>>

\* Repositories.Get fails: newGithubFS and New return the error.
GetRepositoryFails ==
    /\ gc.pc = "getRepo"
    /\ gc' = [gc EXCEPT !.pc = "failed", !.repoCalls = @ + 1,
                        !.result = [returned |-> TRUE, tree |-> FALSE,
                                    err |-> Err("get git repository", <<>>)]]
    /\ UNCHANGED <<treeVars, fileVars, openVars>>

NextCreate ==
    \/ ParseProject
    \/ GetRepository
    \/ GetRepositoryFails
    \/ NextMeta

SpecCreate == InitCreate /\ [][NextCreate]_vars

----------------------------------------------------------------------------
(* glob.Patterns.Match on the paths and the pattern lists *)

\* Match is about to be called.
InitMatch ==
    /\ tree = EmptyTree
    /\ lastOp = NoOp
    /\ lastErr = FALSE
    /\ nAdds = 0
    /\ FilesIdle
    /\ gc = NoBuild
    /\ lastCall \in {[op |-> "call", name |-> path, patterns |-> p, isDir |-> isDir] :
                        path \in RawPaths, p \in Globs, isDir \in BOOLEAN}
    /\ binfsData = NoData

CallMatch ==
    /\ lastCall.op = "call"
    /\ lastCall' = [op |-> "Match", name |-> lastCall.name, patterns |-> lastCall.patterns,
                    isDir |-> lastCall.isDir,
                    ok |-> Match(lastCall.patterns, lastCall.name, lastCall.isDir)]
    /\ UNCHANGED <<treeVars, fileVars, buildVars, binfsData>>

NextMatch == CallMatch

SpecMatch == InitMatch /\ [][NextMatch]_vars

----------------------------------------------------------------------------
(* binfs.Register, called with any project, version and data *)

\* EncodeVersion, the one version Register decodes.
EncodeVersion == 1

supportedAny(version) == TRUE

\* The switch on version of Register: case 1 decodes, default panics.
supported(version) == version = EncodeVersion

\* Register(project, version, encoded) on the registry d: the registry
\* after the call and whether the call panicked. decoded is the filesystem
\* that decodeV1 makes of encoded, decodes whether it returns no error.
binfsRegister(d, project, version, decoded, decodes) ==
    IF project \in DOMAIN d
    THEN [data |-> d, panics |-> TRUE]
    ELSE IF ~supported(version)
    THEN [data |-> d, panics |-> TRUE]
    ELSE IF ~decodes
    THEN [data |-> d, panics |-> TRUE]
    ELSE [data |-> d @@ (project :> [fs |-> decoded, globPatterns |-> <<>>]),
          panics |-> FALSE]

InitRegister ==
    /\ tree = EmptyTree
    /\ lastOp = NoOp
    /\ lastErr = FALSE
    /\ nAdds = 0
    /\ FilesIdle
    /\ gc = NoBuild
    /\ lastCall = NoCall
    /\ binfsData = NoData

\* A call of Register; the panic is recovered by the caller, as in
\* TestRegister_illegalVersion.
CallRegister ==
    /\ \E project \in NewProjects, version \in 0..(EncodeVersion + 1),
          repo \in Repos, decodes \in BOOLEAN :
          /\ project \in DOMAIN binfsData \/ Cardinality(DOMAIN binfsData) < MaxRegistered + 1
          /\ LET r == binfsRegister(binfsData, project, version, FS(repo), decodes)
             IN  /\ binfsData' = r.data
                 /\ lastCall' = [op |-> "Register", name |-> project, version |-> version,
                                 panics |-> r.panics]
    /\ UNCHANGED <<treeVars, fileVars, buildVars>>

NextRegister == CallRegister

SpecRegister == InitRegister /\ [][NextRegister]_vars

----------------------------------------------------------------------------
(* internal/binfs: encode and decodeV1 *)

\* fsStorage: Files, from path to content, and Dirs, the set of paths.
newFSStorage == [files |-> <<>>, dirs |-> {}, err |-> FALSE]

\* filepath.Join(dir, name)
JoinPath(dir, name) ==
    IF dir = <<>> THEN Clean(name)
    ELSE IF name = <<>> THEN Clean(dir)
    ELSE Clean(dir \o <<"/">> \o name)

Reverse(s) == [i \in 1..Len(s) |-> s[Len(s) + 1 - i]]

\* The item of the walker for a path: the os.FileInfo it has of it, and
\* the error of getting it.
Item(path, kind, err) == [path |-> path, kind |-> kind, err |-> err]

\* fileSystem.Lstat of the root the walk starts from.
RootItem(t) ==
    LET opened == TreeOpen(t, <<>>)
    IN  IF opened.err # "nil" THEN Item(<<>>, "none", TRUE)
        ELSE Item(<<>>, t[opened.path].kind, FALSE)

\* readFile: Open and ioutil.ReadAll. The read of a failing loader is an
\* error; the read of a directory never ends (dir.Read returns 0, nil),
\* which is taken as no encoding too.
readFile(t, path) ==
    LET opened == TreeOpen(t, path)
    IN  IF opened.err # "nil" \/ t[opened.path].kind # "file"
        THEN [err |-> TRUE, b |-> <<>>]
        ELSE LET outcomes == LoadOutcomes(t[opened.path].load, FALSE)
             IN  IF \E o \in outcomes : o.err
                 THEN [err |-> TRUE, b |-> <<>>]
                 ELSE [err |-> FALSE, b |-> Bytes(LoaderContent(t[opened.path].load))]

\* Walker.Step: it reads the directory of the current item and pushes its
\* children, or pushes the item again with the error of the reading; then
\* it pops the next item. more is what Step returns.
Step(t, stack, cur, descend) ==
    LET descending == descend /\ ~cur.err /\ cur.kind = "dir"
        opened     == TreeOpen(t, cur.path)
        readErr    == opened.err # "nil"
        infos      == IF readErr THEN <<>> ELSE t[opened.path].files
        children   == [i \in 1..Len(infos) |->
                          Item(JoinPath(cur.path, infos[i].name), infos[i].kind, FALSE)]
        stack1     == IF ~descending THEN stack
                      ELSE IF readErr THEN Append(stack, [cur EXCEPT !.err = TRUE])
                      ELSE stack \o Reverse(children)
    IN  IF stack1 = <<>>
        THEN [more |-> FALSE, stack |-> stack1, cur |-> cur]
        ELSE [more |-> TRUE, stack |-> SubSeq(stack1, 1, Len(stack1) - 1),
              cur |-> stack1[Len(stack1)]]

RECURSIVE walk(_, _, _, _, _)
\* The loop of encode over walker.Step(): the body stores the item that
\* Step has popped. At the end walker.Err() is the error of the last item.
walk(t, stack, cur, descend, storage) ==
    LET s    == Step(t, stack, cur, descend)
        next == s.cur
    IN  IF ~s.more
        THEN [storage EXCEPT !.err = cur.err]
        ELSE IF next.path = <<>>
        THEN walk(t, s.stack, next, TRUE, storage)
        ELSE IF next.kind = "dir"
        THEN walk(t, s.stack, next, TRUE, [storage EXCEPT !.dirs = @ \cup {next.path}])
        ELSE LET r == readFile(t, next.path)
             IN  IF r.err
                 THEN [storage EXCEPT !.err = TRUE]
                 ELSE walk(t, s.stack, next, TRUE,
                           [storage EXCEPT !.files = (next.path :> r.b) @@ @])

\* encode(fs): the storage that is encoded, err when encode returns an error.
encode(t) == walk(t, <<RootItem(t)>>, Item(<<>>, "none", FALSE), FALSE, newFSStorage)

\* The orders in which range can give the elements of a map.
Orders(S) ==
    {order \in [1..Cardinality(S) -> S] :
        \A i, j \in 1..Cardinality(S) : order[i] = order[j] => i = j}

RECURSIVE addDirs(_, _)
addDirs(t, dirs) ==
    IF dirs = <<>> THEN t ELSE addDirs(AddDir(t, Head(dirs)).t, Tail(dirs))

RECURSIVE addFiles(_, _, _)
\* The loader of a decoded file returns the stored content, or an error
\* when its context is done: the loader "ok", or "empty" for no content.
addFiles(t, files, paths) ==
    IF paths = <<>> THEN t
    ELSE LET b == files[Head(paths)]
         IN  addFiles(AddFile(t, Head(paths), Len(b),
                              IF b = <<>> THEN "empty" ELSE "ok").t,
                      files, Tail(paths))

\* decodeV1 of the encoding of a storage: the directories, then the files,
\* each in the order the range over the map gives; the errors of AddDir
\* and AddFile are not looked at.
decodeV1(storage, dirOrder, fileOrder) ==
    addFiles(addDirs(EmptyTree, dirOrder), storage.files, fileOrder)

\* What reading a file of a tree to its end gives.
ContentOf(t, path) == Bytes(LoaderContent(t[path].load))

InitCodec ==
    /\ tree \in TreesAfter(MaxAdds)
    /\ lastOp = NoOp
    /\ lastErr = FALSE
    /\ nAdds = 0
    /\ FilesIdle
    /\ gc = NoBuild
    /\ lastCall = NoCall
    /\ binfsData = NoData

\* encode of the tree, then decodeV1 of the string when there is one.
CallEncodeDecode ==
    /\ lastCall = NoCall
    /\ LET storage == encode(tree)
       IN  IF storage.err
           THEN lastCall' = [op |-> "encode", err |-> TRUE, t |-> EmptyTree]
           ELSE \E dirOrder \in Orders(storage.dirs), fileOrder \in Orders(DOMAIN storage.files) :
                   lastCall' = [op |-> "decodeV1", err |-> FALSE,
                                t |-> decodeV1(storage, dirOrder, fileOrder)]
    /\ UNCHANGED <<treeVars, fileVars, buildVars, binfsData>>

NextCodec == CallEncodeDecode

SpecCodec == InitCodec /\ [][NextCodec]_vars

----------------------------------------------------------------------------
(* fsutil.Diff and lsR *)

RECURSIVE insertPath(_, _)
insertPath(sorted, path) ==
    IF sorted = <<>> THEN <<path>>
    ELSE IF PathLess(path, Head(sorted)) THEN <<path>> \o sorted
    ELSE <<Head(sorted)>> \o insertPath(Tail(sorted), path)

RECURSIVE sortStrings(_)
\* sort.Strings
sortStrings(paths) ==
    IF paths = <<>> THEN <<>> ELSE insertPath(sortStrings(Tail(paths)), Head(paths))

RECURSIVE lsRSteps(_, _, _, _, _)
\* The loop of lsR over w.Step(): every path the walker stops at.
lsRSteps(t, stack, cur, descend, paths) ==
    LET s == Step(t, stack, cur, descend)
    IN  IF ~s.more THEN [err |-> cur.err, paths |-> paths]
        ELSE lsRSteps(t, s.stack, s.cur, TRUE, Append(paths, s.cur.path))

\* lsR: the sorted paths, or the error of the walker.
lsR(t) ==
    LET r == lsRSteps(t, <<RootItem(t)>>, Item(<<>>, "none", FALSE), FALSE, <<>>)
    IN  IF r.err THEN [err |-> TRUE, paths |-> <<>>]
        ELSE [err |-> FALSE, paths |-> sortStrings(r.paths)]

NoDiff == "equal"

\* contentDiff: the difference at a path that both have, NoDiff for none.
contentDiff(a, b, path) ==
    LET aF == TreeOpen(a, path)
        bF == TreeOpen(b, path)
    IN  IF aF.err # "nil" \/ bF.err # "nil" THEN [err |-> TRUE, diff |-> NoDiff]
        ELSE LET aSt == a[aF.path]
                 bSt == b[bF.path]
             IN  IF aSt.kind = "dir" \/ bSt.kind = "dir"
                 THEN [err |-> FALSE,
                       diff |-> IF aSt.kind # "dir" THEN "a file, b directory"
                                ELSE IF bSt.kind # "dir" THEN "a directory, b file"
                                ELSE NoDiff]
                 ELSE LET aData == readFile(a, path)
                          bData == readFile(b, path)
                      IN  IF aData.err \/ bData.err THEN [err |-> TRUE, diff |-> NoDiff]
                          ELSE [err |-> FALSE,
                                diff |-> IF aData.b = bData.b THEN NoDiff ELSE "content diff"]

RECURSIVE compare(_, _, _, _, _)
\* The loop of Diff over the two sorted lists.
compare(a, b, aFiles, bFiles, diffs) ==
    IF aFiles = <<>> /\ bFiles = <<>> THEN [err |-> FALSE, diffs |-> diffs]
    ELSE IF bFiles = <<>> \/ (aFiles # <<>> /\ PathLess(Head(aFiles), Head(bFiles)))
    THEN compare(a, b, Tail(aFiles), bFiles,
                 Append(diffs, [path |-> Head(aFiles), diff |-> "only in a"]))
    ELSE IF aFiles = <<>> \/ (bFiles # <<>> /\ PathLess(Head(bFiles), Head(aFiles)))
    THEN compare(a, b, aFiles, Tail(bFiles),
                 Append(diffs, [path |-> Head(bFiles), diff |-> "only in b"]))
    ELSE LET d == contentDiff(a, b, Head(aFiles))
         IN  IF d.err THEN [err |-> TRUE, diffs |-> <<>>]
             ELSE compare(a, b, Tail(aFiles), Tail(bFiles),
                          IF d.diff = NoDiff THEN diffs
                          ELSE Append(diffs, [path |-> Head(aFiles), diff |-> d.diff]))

\* Diff(a, b)
Diff(a, b) ==
    LET aFiles == lsR(a)
        bFiles == lsR(b)
    IN  IF aFiles.err \/ bFiles.err THEN [err |-> TRUE, diffs |-> <<>>]
        ELSE compare(a, b, aFiles.paths, bFiles.paths, <<>>)

\* Diff is about to be called on the tree and on a second one.
InitDiff ==
    /\ tree \in TreesAfter(MaxAdds)
    /\ lastOp = NoOp
    /\ lastErr = FALSE
    /\ nAdds = 0
    /\ FilesIdle
    /\ gc = NoBuild
    /\ lastCall \in {[op |-> "call", b |-> b] : b \in TreesAfter(MaxAdds - 1)}
    /\ binfsData = NoData

\* Diff(a, b), then Diff(b, a).
CallDiff ==
    /\ lastCall.op = "call"
    /\ lastCall' = [op |-> "Diff", b |-> lastCall.b,
                    ab |-> Diff(tree, lastCall.b), ba |-> Diff(lastCall.b, tree)]
    /\ UNCHANGED <<treeVars, fileVars, buildVars, binfsData>>

NextDiff == CallDiff

SpecDiff == InitDiff /\ [][NextDiff]_vars

----------------------------------------------------------------------------
(* Claims about the tree *)

\* The paths above p: p cut at each of its separators, and the root.
Ancestors(p) ==
    {cleanPath(SubSeq(p, 1, i - 1)) : i \in {j \in 1..Len(p) : p[j] = "/"}}
        \cup (IF p = <<>> THEN {} ELSE {<<>>})

\* C1: after any sequence of AddFile and AddDir calls on an initially empty
\* tree, calls that return an error included, every ancestor of every path
\* of the tree is in the tree and is a directory.
C1_AncestorsAreDirs ==
    \A p \in DOMAIN tree :
        \A q \in Ancestors(p) : q \in DOMAIN tree /\ tree[q].kind = "dir"

\* C8: AddDir on a path that holds a file, and AddFile on a path that holds
\* a directory, return an error and leave the entry at that path and the
\* child list of its parent as they were.
C8_KindConflictKeepsEntry ==
    [][LET path   == cleanPath(lastOp'.path)
           parent == cleanPath(SplitDir(path))
       IN  (/\ path \in DOMAIN tree
            /\ \/ lastOp'.op = "AddDir" /\ tree[path].kind = "file"
               \/ lastOp'.op = "AddFile" /\ tree[path].kind = "dir")
           => /\ lastErr'
              /\ path \in DOMAIN tree'
              /\ tree'[path] = tree[path]
              /\ parent \in DOMAIN tree /\ parent \in DOMAIN tree'
              /\ tree'[parent].files = tree[parent].files]_vars

\* An AddDir was refused at a path that holds a file with a registered parent.
C8_Witness ==
    /\ lastOp.op = "AddDir"
    /\ lastErr
    /\ cleanPath(lastOp.path) \in DOMAIN tree
    /\ tree[cleanPath(lastOp.path)].kind = "file"
    /\ <<>> \in DOMAIN tree
    /\ tree[<<>>].files # <<>>

----------------------------------------------------------------------------
(* Claims about the lazily loaded file *)

\* The position of handle h: that of the reader it points to.
Pos(h) ==
    IF handles[h].reader = NoReader THEN 0 ELSE readers[handles[h].reader].i

\* What a file holds: what its loader returns.
FullContent(f) == Bytes(LoaderContent(tree[f].load))

\* Goroutine t returns from a Read or Seek in this step.
Returns(t) == threads[t].pc # "idle" /\ threads'[t].pc = "idle"

\* C3: for a file whose loader succeeds, handles that are opened and fully
\* read concurrently call the loader exactly once in total, and every one
\* of them reads the complete content.
C3_LoaderCalledOnce ==
    \A f \in FilePaths :
        tree[f].load \in {"ok", "empty", "ignorectx"} =>
            /\ loadCalls[f] <= 1
            /\ \A h \in HandleIds :
                  (handles[h].file = f /\ handles[h].fresh /\ handles[h].eof)
                      => loadCalls[f] = 1 /\ handles[h].out = FullContent(f)

\* C4: a Read or Seek on a handle never changes the position of the handle
\* it was derived from by WithContext, nor that of a handle derived from it.
C4_DerivedOwnPosition ==
    [][\A t \in Threads :
          (Returns(t) /\ threads[t].pc = "use") =>
              \A g \in HandleIds :
                  (g # threads[t].h
                      /\ (handles[g].from = threads[t].h \/ handles[threads[t].h].from = g))
                  => (handles'[g].reader = NoReader) = (handles[g].reader = NoReader)
                     /\ (handles'[g].reader # NoReader =>
                           readers'[handles'[g].reader].i = Pos(g))]_vars

\* A Read whose context is done when it is called: no step of it changes
\* the cache (unless exempt), and it returns an error.
CancelledRead(exempt) ==
    \A t \in Threads :
        (/\ threads[t].op = "Read"
         /\ threads[t].pc # "idle"
         /\ threads'[t] # threads[t]
         /\ Done(threads[t].ctx)
         /\ handles[threads[t].h].ctx = threads[t].ctx)
        => /\ (tree[handles[threads[t].h].file].load \notin exempt => content' = content)
           /\ (Returns(t) => lastRes'.err = "error")

\* A handle with the default context that was read to the end has read the
\* full content.
FreshReadsAll ==
    \A h \in HandleIds :
        (handles[h].fresh /\ handles[h].eof /\ handles[h].ctx = "background")
            => handles[h].out = FullContent(handles[h].file)

\* C5 as claimed: a Read on a handle whose context is already cancelled
\* returns an error and leaves the cache as it was, whatever the loader does
\* with its context; a handle with the default context then reads the full
\* content.
C5_CancelledReadKeepsCache ==
    [][CancelledRead({}) /\ FreshReadsAll']_vars

\* C5 as amended: the cache is left as it was provided the loader returns an
\* error when its context is done.
C5_CancelledReadKeepsCacheIfLoaderHonoursCtx ==
    [][CancelledRead({"ignorectx"}) /\ FreshReadsAll']_vars

\* The loader, which fails only when its context is done, was called by a
\* Read with the cancelled context and failed, was called again and filled
\* the cache, and a handle with the default context has read the full
\* content to its end.
C5_Witness ==
    \E h \in HandleIds :
        /\ cancelled
        /\ tree[handles[h].file].load = "ok"
        /\ loadCalls[handles[h].file] = 2
        /\ content[handles[h].file] = FileData
        /\ handles[h].ctx = "background"
        /\ handles[h].fresh
        /\ handles[h].eof
        /\ handles[h].out = FileData

\* C9: a load that fails leaves the cache empty and the tree as it was; the
\* next Read of the file calls the loader again, and returns the content if
\* the loader succeeds.
C9_FailedLoadRetried ==
    [][\A t \in Threads :
          LET h == IF threads[t].pc = "idle" THEN threads'[t].h ELSE threads[t].h
              f == handles[h].file
              c == Bytes(content'[f])
          IN  /\ (threads[t].pc = "loading" /\ Returns(t))
                    => content[f] = Nil /\ content' = content /\ tree' = tree
              /\ (threads[t].pc = "idle" /\ threads'[t].pc # "idle" /\ content[f] = Nil)
                    => threads'[t].pc = "loading" /\ loadCalls'[f] = loadCalls[f] + 1
              /\ (Returns(t) /\ threads[t].op = "Read" /\ threads[t].loaded
                    /\ lastRes'.err \in {"nil", "EOF"})
                    => lastRes'.data = SubSeq(c, 1, Min(threads[t].n, Len(c)))]_vars

\* A Read has returned content that the second call of the loader brought.
C9_Witness ==
    /\ lastRes.op = "Read"
    /\ lastRes.loaded
    /\ lastRes.err = "nil"
    /\ lastRes.data # <<>>
    /\ loadCalls[handles[lastRes.h].file] = 2

----------------------------------------------------------------------------
(* Claims about the construction of the tree of a github project *)

\* C2: prefetchTree returns a tree only if every listing, every download
\* and every insertion succeeded; when one fails it returns an error and
\* no tree.
C2_TreeOnlyIfAllSucceeded ==
    gc.result.returned =>
        /\ gc.result.tree => gc.failed = {}
        /\ gc.failed # {} => gc.result.err # NilErr /\ ~gc.result.tree

\* C6: when tasks have reported errors, the error that the construction
\* returns is the first that was reported.
C6_FirstReportedErrorReturned ==
    [][(gc.pc = "receive" /\ gc'.pc = "done" /\ gc.reported # <<>>)
          => gc'.result.err = Head(gc.reported)]_vars

\* C7: the construction returns when every task has finished, its
\* insertion and its error report included: once it has returned, no
\* task changes the tree or reports an error.
C7_NothingRunsAfterReturn ==
    [][gc.result.returned => tree' = tree /\ gc'.reported = gc.reported]_vars

\* The directories, the files and the content of the files of a tree.
DirSet(t) == {p \in DOMAIN t : t[p].kind = "dir"}

FileSet(t) == {p \in DOMAIN t : t[p].kind = "file"}

\* What the loader of a file returns when the remote calls succeed.
Loads(node) == [data |-> node.load.data, err |-> node.load.err]

\* C10: prefetchTree and getTree, on the same repository, path and
\* patterns, give the same directories, the same files and the same
\* content of every file, when every remote call succeeds.
C10_BuildersAgree ==
    (gc.result.returned /\ gc.failed = {} /\ gc.checks = <<>>) =>
        LET meta == getTree(gc.repo, gc.path, gc.glob)
        IN  /\ ~meta.err
            /\ gc.result.tree
            /\ DirSet(tree) = DirSet(meta.t)
            /\ FileSet(tree) = FileSet(meta.t)
            /\ \A f \in FileSet(tree) \cap FileSet(meta.t) :
                  Loads(tree[f]) = Loads(meta.t[f])

\* The files of the repository under the project's path, as the tree names
\* them.
FilesUnderPath ==
    {TrimPrefix(p, gc.path) : p \in {q \in gc.repo : HasPrefix(q, gc.path)}}

\* C11: with no pattern, Match is true of every path, as a file and as a
\* directory, and the tree that is built holds every file under the path.
C11_NoPatternMatchesAll ==
    (gc.glob = <<>> /\ gc.result.returned /\ gc.failed = {}) =>
        /\ \A p \in gc.repo \cup RepoDirs(gc.repo) :
              Match(gc.glob, p, TRUE) /\ Match(gc.glob, p, FALSE)
        /\ FileSet(tree) = FilesUnderPath
        /\ FileSet(getTree(gc.repo, gc.path, gc.glob).t) = FilesUnderPath

----------------------------------------------------------------------------
(* Claims about Tree.Open and Readdir *)

\* C12: for a file at path p, Open(p + "/") fails with os.ErrInvalid and
\* Open(p) opens it; for a directory at path d, Open(d) and Open(d + "/")
\* both open it.
C12_TrailingSlashAssertsDir ==
    lastCall # NoCall /\ lastCall.op = "Open" =>
        \A p \in DOMAIN tree :
            /\ (tree[p].kind = "file" /\ lastCall.name = p \o <<"/">>)
                  => lastCall.err = "ErrInvalid"
            /\ (tree[p].kind = "file" /\ lastCall.name = p)
                  => lastCall.err = "nil" /\ lastCall.path = p
            /\ (tree[p].kind = "dir" /\ lastCall.name \in {p, p \o <<"/">>})
                  => lastCall.err = "nil" /\ lastCall.path = p

\* Open was called with the path of a file and a trailing separator.
C12_Witness ==
    /\ lastCall # NoCall
    /\ lastCall.op = "Open"
    /\ lastCall.err = "ErrInvalid"
    /\ \E p \in DOMAIN tree :
          p # <<>> /\ tree[p].kind = "file" /\ lastCall.name = p \o <<"/">>

\* C13: Open looks the name up without its leading and trailing "/": it
\* fails with os.ErrNotExist exactly when that path is not in the tree,
\* also when the name has a trailing "/", and the name with one more leading
\* "/" opens the same node.
C13_OpenNormalizesName ==
    lastCall # NoCall /\ lastCall.op = "Open" =>
        /\ lastCall.err = "ErrNotExist" <=> cleanPath(lastCall.name) \notin DOMAIN tree
        /\ lastCall.err = "nil" => lastCall.path = cleanPath(lastCall.name)
        /\ Len(lastCall.name) <= MaxPathLen =>
              TreeOpen(tree, <<"/">> \o lastCall.name)
                  = [err |-> lastCall.err, path |-> lastCall.path]

\* C14: Readdir(n) on a directory with k entries returns the k entries
\* when n <= 0 or n >= k, the first n when 0 < n < k, and no error.
C14_ReaddirCount ==
    lastCall # NoCall /\ lastCall.op = "Readdir" =>
        LET all == tree[lastCall.path].files
            k   == Len(all)
            n   == lastCall.n
        IN  /\ lastCall.err = "nil"
            /\ (n <= 0 \/ n >= k) => lastCall.files = all
            /\ (0 < n /\ n < k) =>
                  /\ Len(lastCall.files) = n
                  /\ \A i \in 1..n : lastCall.files[i] = all[i]

\* Readdir was called for fewer entries than the directory has.
C14_Witness ==
    /\ lastCall # NoCall
    /\ lastCall.op = "Readdir"
    /\ 0 < lastCall.n
    /\ lastCall.n < Len(tree[lastCall.path].files)
    /\ Len(lastCall.files) = lastCall.n

----------------------------------------------------------------------------
(* Claims about reading the files of a github project *)

\* The number of blob fetches made for file f.
Fetches(g, f) == IF f \in DOMAIN g.blobs THEN g.blobs[f] ELSE 0

\* C15: without prefetch the construction makes one tree listing and no
\* blob fetch; a blob of a file is fetched only when the file is read, and
\* never again once a fetch of it has succeeded.
C15_OneListingThenFetchOnRead ==
    [][/\ (gc.pc = "start" /\ gc'.pc = "done")
              => gc'.listings = 1 /\ gc'.blobs = <<>>
       /\ gc.pc = "done" => gc'.listings = gc.listings
       /\ \A f \in DOMAIN gc'.blobs :
             Fetches(gc', f) > Fetches(gc, f) =>
                 /\ lastRes'.op = "ReadAll" /\ lastRes'.path = f /\ lastRes'.remote
                 /\ Cached(f) = Nil
       /\ (lastRes' # <<>> /\ ~lastRes'.err)
             => content'[lastRes'.path] = lastRes'.data]_vars

\* A file was read again after its blob was fetched: the second read made
\* no fetch.
C15_Witness ==
    /\ gc.pc = "done"
    /\ lastRes # <<>>
    /\ lastRes.op = "ReadAll"
    /\ ~lastRes.remote
    /\ ~lastRes.err
    /\ Fetches(gc, lastRes.path) = 1

----------------------------------------------------------------------------
(* Claims on gitfs.New *)

\* C17: whatever source New selects, a filesystem made with
\* OptGlob(patterns) gives only files that match one of the patterns.
C17_GlobAppliesToEverySource ==
    (lastCall # NoCall /\ lastCall.op = "New" /\ ~lastCall.r.err /\ lastCall.patterns # <<>>) =>
        \A f \in Exposed(lastCall.r.fs) : matchFull(lastCall.patterns, f)

\* C18: New selects one source: the local checkout when a local path is
\* given, without a call to the registry or the remote; else the registry
\* when the project is registered, without a remote call; else the remote
\* when the identifier is a github.com one; else an error and no
\* filesystem.
C18_SourceSelectionOrder ==
    (lastCall # NoCall /\ lastCall.op = "New") =>
        LET r          == lastCall.r
            local      == lastCall.localPath # <<>>
            registered == lastCall.name \in DOMAIN binfsData
            github     == githubfsMatch(lastCall.name)
        IN  /\ r.source = (IF local THEN "local"
                           ELSE IF registered THEN "binary"
                           ELSE IF github THEN "github"
                           ELSE "none")
            /\ r.source = "local" => r.calls = <<"localfs.New">>
            /\ r.source = "binary" =>
                  /\ Range(r.calls) \cap {"localfs.New", "githubfs.New", "remote"} = {}
                  /\ ~r.err /\ r.fs = binfsData[lastCall.name].fs
            /\ r.source = "github" => "localfs.New" \notin Range(r.calls) /\ "binfs.Get" \notin Range(r.calls)
            /\ r.source = "none" =>
                  /\ r.err /\ r.fs = NoFS
                  /\ Range(r.calls) \cap {"localfs.New", "binfs.Get", "githubfs.New", "remote"} = {}

C18_Witness ==
    /\ lastCall # NoCall
    /\ lastCall.op = "New"
    /\ lastCall.localPath = <<>>
    /\ lastCall.name \in DOMAIN binfsData
    /\ githubfsMatch(lastCall.name)
    /\ lastCall.r.source = "binary"
    /\ lastCall.r.fs.files # {}

----------------------------------------------------------------------------
(* Claims on the project identifier *)

\* The cuts of an identifier of the form
\* github.com/owner/repo(/subpath)?(@ref)?: owner and repo are not empty
\* and hold no "/" and no "@", the subpath holds no "@".
Forms(id) ==
    {<<a, b, c>> \in (1..(Len(id) + 1)) \X (1..(Len(id) + 1)) \X (1..(Len(id) + 1)) :
        /\ HasPrefix(id, Host)
        /\ Len(Host) + 1 < a /\ a + 1 < b /\ b <= c
        /\ id[a] = "/"
        /\ \A i \in ((Len(Host) + 1)..(b - 1)) \ {a} : id[i] \notin {"/", "@"}
        /\ b <= Len(id) => id[b] \in {"/", "@"}
        /\ b < c => id[b] = "/"
        /\ \A i \in b..(c - 1) : id[i] # "@"
        /\ c <= Len(id) => id[c] = "@" /\ c < Len(id)}

\* The ref of an identifier cut at c, after the rewrite of a bare version.
RefAt(id, c) ==
    LET ref == SubSeq(id, c + 1, Len(id))
    IN  IF reSemver(ref) THEN <<"tags", "/">> \o ref ELSE ref

Versions == {v \o Dotted(n) : v \in {<<>>, <<"v">>}, n \in 1..3}

\* C20: an identifier with @<version>, the version being bare, parses to
\* the same owner, repo, subpath and ref as the one with @tags/<version>.
C20_BareVersionIsTag ==
    (lastCall # NoCall /\ lastCall.op = "newProject") =>
        \A i \in 1..Len(lastCall.name) :
            LET base    == SubSeq(lastCall.name, 1, i - 1)
                version == SubSeq(lastCall.name, i + 1, Len(lastCall.name))
            IN  (lastCall.name[i] = "@" /\ "@" \notin Range(base) /\ version \in Versions) =>
                    lastCall.p = newProject(base \o <<"@", "tags", "/">> \o version)

C20_Witness ==
    /\ lastCall # NoCall
    /\ lastCall.op = "newProject"
    /\ lastCall.name = Host \o <<"x", "/", "x", "/", "x", "@", "1", ".", "1", ".", "1">>
    /\ ~lastCall.p.err
    /\ lastCall.p.path = <<"x", "/">>
    /\ lastCall.p.ref = <<"tags", "/", "1", ".", "1", ".", "1">>

----------------------------------------------------------------------------
(* Claims on the creation of a remote filesystem *)

\* The githubfs of the project is made: getTree runs.
IsCreated == gc.pc \notin {"new", "getRepo", "failed"}

\* C21: creating a remote filesystem calls Repositories.Get once when the
\* identifier has no ref, and the ref becomes heads/<default branch>; it
\* makes no such call when a ref is given; when the call fails the
\* construction has failed with no listing and no contents call, and
\* nothing more is done.
C21_DefaultBranchAskedOnce ==
    /\ [](IsCreated =>
            IF "@" \in Range(gc.name)
            THEN gc.repoCalls = 0 /\ gc.ref = newProject(gc.name).ref
            ELSE /\ gc.repoCalls = 1
                 /\ \E branch \in DefaultBranches : gc.ref = <<"heads", "/">> \o branch)
    /\ []((gc.pc = "failed" /\ gc.repoCalls > 0) =>
            /\ "@" \notin Range(gc.name)
            /\ gc.repoCalls = 1
            /\ gc.result.returned /\ ~gc.result.tree
            /\ gc.result.err = Err("get git repository", <<>>)
            /\ gc.listings = 0 /\ gc.blobs = <<>>
            /\ tree = EmptyTree /\ content = <<>>)
    /\ [][gc.pc = "failed" => gc' = gc /\ tree' = tree /\ content' = content]_vars

C21_Witness ==
    /\ IsCreated
    /\ "@" \notin Range(gc.name)
    /\ gc.repoCalls = 1
    /\ gc.ref = <<"heads", "/", "master">>
    /\ gc.result.returned
    /\ gc.result.tree
    /\ tree # EmptyTree

----------------------------------------------------------------------------
(* Claims on Patterns.Match *)

\* A file path matches: the whole of it matches one of the patterns.
WholeMatches(p, path) == \E i \in 1..Len(p) : FilepathMatch(p[i], path)

\* A directory path matches: a pattern has at least as many components,
\* and each component of the path matches the pattern's at its position.
ComponentsMatch(p, path) ==
    \E i \in 1..Len(p) :
        /\ Len(Split(p[i])) >= Len(Split(path))
        /\ \A j \in 1..Len(Split(path)) : FilepathMatch(Split(p[i])[j], Split(path)[j])

\* C22, as stated: with patterns, Match of a file is the match of its
\* whole path with a pattern, Match of a directory is the match of its
\* components with the first components of a pattern.
C22_MatchFileWholeDirPrefix ==
    (lastCall # NoCall /\ lastCall.op = "Match" /\ lastCall.patterns # <<>>) =>
        lastCall.ok = (IF lastCall.isDir
                       THEN ComponentsMatch(lastCall.patterns, lastCall.name)
                       ELSE WholeMatches(lastCall.patterns, lastCall.name))

\* C22, amended: the same, of the path that filepath.Clean makes of the
\* given path.
C22_MatchOfCleanedPath ==
    (lastCall # NoCall /\ lastCall.op = "Match" /\ lastCall.patterns # <<>>) =>
        lastCall.ok = (IF lastCall.isDir
                       THEN ComponentsMatch(lastCall.patterns, Clean(lastCall.name))
                       ELSE WholeMatches(lastCall.patterns, Clean(lastCall.name)))

C22_Witness ==
    /\ lastCall # NoCall
    /\ lastCall.op = "Match"
    /\ lastCall.isDir
    /\ lastCall.name = <<"a">>
    /\ lastCall.patterns = <<(<<"*", "/", "*">>)>>
    /\ lastCall.ok
    /\ ~WholeMatches(lastCall.patterns, lastCall.name)

----------------------------------------------------------------------------
(* Claims on the registry *)

\* C23: Register with a version other than EncodeVersion, or for a project
\* that is registered, panics and leaves the registry as it was: Match and
\* Get give for every project what they gave before.
C23_BadRegisterPanics ==
    [][(lastCall'.op = "Register"
          /\ (lastCall'.version # 1 \/ lastCall'.name \in DOMAIN binfsData)) =>
            /\ lastCall'.panics
            /\ \A project \in NewProjects :
                  /\ binfsMatch(project)' = binfsMatch(project)
                  /\ binfsMatch(project) => binfsGet(project)' = binfsGet(project)]_vars

C23_Witness ==
    /\ lastCall # NoCall
    /\ lastCall.op = "Register"
    /\ lastCall.panics
    /\ lastCall.version = 1
    /\ lastCall.name \in DOMAIN binfsData
    /\ Cardinality(DOMAIN binfsData) > 1

----------------------------------------------------------------------------
(* Claims on encode and decodeV1 *)

\* C24: the tree that decodeV1 makes of the encoding of a tree has the
\* same directories, the same files and the same content of every file,
\* for every tree that a call of AddDir or AddFile has made.
C24_DecodeOfEncodeIsSame ==
    (lastCall # NoCall /\ tree # EmptyTree) =>
        /\ lastCall.op = "decodeV1"
        /\ DirSet(lastCall.t) = DirSet(tree)
        /\ FileSet(lastCall.t) = FileSet(tree)
        /\ \A f \in FileSet(tree) : ContentOf(lastCall.t, f) = ContentOf(tree, f)

----------------------------------------------------------------------------
(* Claims on Diff *)

\* The paths a result of Diff reports with a message.
Reported(r, msg) == {r.diffs[i].path : i \in {j \in 1..Len(r.diffs) : r.diffs[j].diff = msg}}

\* C25: for all trees a and b, a tree without any entry included, Diff
\* returns no error, and the paths Diff(a, b) reports as only in a are the
\* paths Diff(b, a) reports as only in b.
C25_DiffMirrors ==
    (lastCall # NoCall /\ lastCall.op = "Diff") =>
        /\ ~lastCall.ab.err
        /\ ~lastCall.ba.err
        /\ Reported(lastCall.ab, "only in a") = Reported(lastCall.ba, "only in b")

----------------------------------------------------------------------------
(* Claims about failed and repeated Add calls *)

\* The call just made had a file at an ancestor of its path.
AncestorIsFile ==
    \E q \in Ancestors(cleanPath(lastOp'.path)) : q \in DOMAIN tree /\ tree[q].kind = "file"

\* C26: an AddFile or AddDir call that returns an error because an ancestor
\* of its path is a file leaves the tree as it was: no path is added and
\* no child list changes.
C26_FailedAddChangesNothing ==
    [][(lastErr' /\ AncestorIsFile) => tree' = tree]_vars

\* The paths of the tree whose immediate parent is the directory at d.
ChildrenOf(d) ==
    {p \in DOMAIN tree : p # <<>> /\ cleanPath(SplitDir(p)) = d}

\* The positions of d's child list that describe the node at path p.
EntriesFor(d, p) ==
    {i \in 1..Len(tree[d].files) :
        /\ tree[d].files[i].name = SplitName(p)
        /\ tree[d].files[i].kind = tree[p].kind}

\* C27: in every reachable tree each directory's child list holds exactly
\* one entry (base name and kind) for each path whose immediate parent is
\* that directory and nothing else, and no path is missing from the list
\* of its parent.
C27_ChildListsAreExact ==
    /\ \A p \in DOMAIN tree :
          p # <<>> =>
             /\ cleanPath(SplitDir(p)) \in DOMAIN tree
             /\ tree[cleanPath(SplitDir(p))].kind = "dir"
    /\ \A d \in DOMAIN tree :
          tree[d].kind = "dir" =>
             /\ \A p \in ChildrenOf(d) : Cardinality(EntriesFor(d, p)) = 1
             /\ Len(tree[d].files) = Cardinality(ChildrenOf(d))

\* C28: an AddDir or AddFile at a path that already holds a node of the same
\* kind returns no error and changes nothing (the declared size and loader
\* of a file included), so that a successful Add call made again leaves the
\* tree as the first call left it.
C28_SameKindAddIsNoOp ==
    [][LET path == cleanPath(lastOp'.path)
       IN  /\ (/\ path \in DOMAIN tree
               /\ \/ lastOp'.op = "AddDir" /\ tree[path].kind = "dir"
                  \/ lastOp'.op = "AddFile" /\ tree[path].kind = "file")
              => ~lastErr' /\ tree' = tree
           /\ (lastOp'.op = "AddDir" /\ ~lastErr')
              => AddDir(tree', lastOp'.path) = [t |-> tree', err |-> FALSE]
           /\ (lastOp'.op = "AddFile" /\ ~lastErr')
              => \A size \in 0..MaxSize, load \in {"ok", "fail"} :
                    AddFile(tree', lastOp'.path, size, load) = [t |-> tree', err |-> FALSE]]_vars

\* An AddFile with another size was made at a path that holds a file.
C28_Witness ==
    /\ lastOp.op = "AddFile"
    /\ ~lastErr
    /\ cleanPath(lastOp.path) \in DOMAIN tree
    /\ tree[cleanPath(lastOp.path)].kind = "file"
    /\ tree[cleanPath(lastOp.path)].size # lastOp.size

----------------------------------------------------------------------------
(* Claims about cancelled contexts and concurrent loads *)

\* C29: every Read and every Seek made on a handle whose context is already
\* cancelled returns an error, whether or not the content of the file is
\* cached.
C29_CancelledHandleFails ==
    [][\A t \in Threads :
          (threads[t].pc # "idle" /\ threads'[t].pc = "idle" /\ threads[t].done)
             => lastRes'.err # "nil"]_vars

\* The goroutines that are inside the loader of file f.
Loading(f) ==
    {t \in Threads : threads[t].pc = "loading" /\ handles[threads[t].h].file = f}

\* A load of file f has succeeded: its content is cached, or the call that
\* ran the loader is still under way or was the last to return.
LoadSucceeded(f) ==
    \/ IsCached(content[f])
    \/ \E t \in Threads : threads[t].loaded /\ handles[threads[t].h].file = f
    \/ lastRes.loaded /\ handles[lastRes.h].file = f

\* C30: at most one loader invocation per file is in progress at any time,
\* and once a load of the file has succeeded no reader invokes the loader
\* again.
C30_OneLoadAtATime ==
    /\ [](\A f \in DOMAIN fmu : Cardinality(Loading(f)) <= 1)
    /\ [][\A f \in DOMAIN loadCalls :
             LoadSucceeded(f) => loadCalls'[f] = loadCalls[f]]_vars

----------------------------------------------------------------------------
(* Claims about the handles of a built tree *)

\* C31: once the tree is built, Open, WithContext, Read, Seek and Close
\* never change a path or a child list of the tree; the cached content of a
\* file, once populated, is never stored again, never changes and never
\* becomes empty.
C31_BuiltTreeOnlyFillsContent ==
    [][/\ tree' = tree
       /\ DOMAIN content' = DOMAIN content
       /\ \A f \in DOMAIN content :
             content[f] # Nil =>
                /\ content'[f] = content[f]
                /\ loadCalls'[f] = loadCalls[f]
                /\ Loading(f)' = {}]_vars

\* A handle was closed after the content of its file had been cached.
C31_Witness ==
    /\ lastRes.op = "Close"
    /\ content[handles[lastRes.h].file] = FileData
    /\ Len(handles) = MaxHandles

\* Where the next Read of handle h starts: no reader yet, or the position
\* in the bytes of its reader.
Cursor(h) ==
    IF handles[h].reader = NoReader
    THEN <<"unset">>
    ELSE <<"at", readers[handles[h].reader].i, readers[handles[h].reader].s>>

\* This step is part of a Read, Seek or Close made on handle h.
ActsOn(h) ==
    \/ \E t \in Threads :
          /\ threads'[t] # threads[t]
          /\ \/ threads[t].pc # "idle" /\ threads[t].h = h
             \/ threads'[t].pc # "idle" /\ threads'[t].h = h
    \/ threads' = threads /\ lastRes'.op = "Close" /\ lastRes'.h = h

\* C32: handles returned by separate Open calls have independent
\* positions: no step of a Read, Seek or Close on one of them changes where
\* another one reads next, and every reader reads the cached content of
\* its file.
C32_OpenedHandlesIndependent ==
    /\ [][\A h \in HandleIds, g \in HandleIds :
             (h # g /\ handles[h].from = 0 /\ handles[g].from = 0 /\ ActsOn(h))
                => Cursor(g)' = Cursor(g)]_vars
    /\ [](\A h \in HandleIds :
             handles[h].reader # NoReader
                => readers[handles[h].reader].s = Bytes(content[handles[h].file]))

\* Two handles of separate Open calls stand at different positions after a
\* Read on the second.
C32_Witness ==
    /\ Len(handles) = 2
    /\ handles[1].from = 0 /\ handles[2].from = 0
    /\ handles[1].reader # NoReader /\ handles[2].reader # NoReader
    /\ lastRes.op = "Read" /\ lastRes.h = 2 /\ lastRes.err = "nil"
    /\ Pos(1) # Pos(2)

\* This step is a Close of handle h.
CloseStep(h) ==
    /\ threads' = threads
    /\ cancelled' = cancelled
    /\ Len(handles') = Len(handles)
    /\ lastRes'.op = "Close"
    /\ lastRes'.h = h

\* Every load of file f made so far has succeeded.
PastLoadsSucceeded(f) ==
    /\ loadCalls[f] > 0
    /\ \A o \in LoadOutcomes(tree[f].load, cancelled) : ~o.err

\* C33: Close leaves the handle without reader and bound to the default
\* context and keeps the cached content; the Read that follows on the same
\* handle does not invoke the loader when a load has succeeded before, and
\* returns the content from offset 0.
C33_ClosedHandleReadsFromStart ==
    [][\A h \in HandleIds :
          LET f == handles[h].file
          IN  /\ CloseStep(h) =>
                    /\ handles'[h].reader = NoReader
                    /\ handles'[h].ctx = "background"
                    /\ content' = content
                    /\ loadCalls' = loadCalls
              /\ \A t \in Threads :
                    (/\ lastRes.op = "Close" /\ lastRes.h = h
                     /\ threads[t].pc = "idle"
                     /\ threads'[t].pc # "idle"
                     /\ threads'[t].op = "Read" /\ threads'[t].h = h
                     /\ (content[f] # Nil \/ PastLoadsSucceeded(f)))
                        => /\ loadCalls' = loadCalls
                           /\ Cursor(h)' = <<"at", 0, Bytes(content[f])>>
              /\ \A t \in Threads :
                    (/\ lastRes.op = "Close" /\ lastRes.h = h
                     /\ threads[t].pc = "use"
                     /\ threads[t].op = "Read" /\ threads[t].h = h
                     /\ threads'[t].pc = "idle")
                        => lastRes'.data =
                              SubSeq(Bytes(content[f]), 1, Min(threads[t].n, Len(Bytes(content[f]))))]_vars

----------------------------------------------------------------------------
(* Claims about the goroutines of prefetchTree *)

Inserting ==
    {i \in 1..Len(gc.stack) : gc.stack[i].state \in {"locked", "added"}}

\* The calls on the stack that wait for the answer of a remote call.
Calling ==
    {i \in 1..Len(gc.stack) : gc.stack[i].state \in {"listing", "downloading"}}

\* C35: during prefetchTree at most one task is inside AddDir or AddFile,
\* it holds gc.mu, and the tree changes only in a step of the task that
\* holds gc.mu.
C35_InsertionsHoldTheLock ==
    /\ [](Cardinality(Inserting) <= 1)
    /\ [](Inserting # {} => gc.mu # Free)
    /\ [][tree' # tree => gc.mu # Free /\ gc'.mu = gc.mu /\ Inserting # {}]_vars

\* downloadContent has added a file, with gc.mu held, in a call of recursive
\* made for a directory.
C35_Witness ==
    /\ gc.mu = "downloadContent"
    /\ Len(gc.stack) >= 2
    /\ Top(gc).state = "added"
    /\ ~gc.ins.err
    /\ gc.ins.path \in DOMAIN tree

\* A download is awaited while a later entry of the same listing is still
\* to be inserted.
OthersPending ==
    /\ gc.pc = "run"
    /\ Top(gc).state = "downloading"
    /\ \E i \in 2..Len(Top(gc).entries) :
          Match(gc.glob, TrimPrefix(Top(gc).entries[i].path, gc.path),
                Top(gc).entries[i].type = "dir")

\* C40: gc.mu is never held while a listing or a download is awaited, and
\* while a download is awaited the entries that are still to be inserted
\* can be taken up.
C40_RemoteCallsDoNotDelayInsertions ==
    /\ [](Calling # {} => gc.mu = Free)
    /\ [](OthersPending => ENABLED (LockDir \/ DownloadCall \/ LockFile \/ Insert))

\* Goroutine t is outside any call and has a handle on a file whose mutex
\* is free and whose loader may still be called.
CanRead(t) ==
    /\ threads[t].pc = "idle"
    /\ \E h \in HandleIds :
          LET g == handles[h].file
          IN  fmu[g] = Free /\ (content[g] # Nil \/ loadCalls[g] < MaxLoads)

\* C36: a load in progress on one file never prevents opening, loading or
\* reading another file: a goroutine can open a file and can start a Read on
\* a file whose own mutex is free whatever load is under way, a load that
\* is under way can finish, and it changes nothing of the other file.
C36_FilesDoNotContend ==
    /\ [](\A t \in Threads :
             /\ (threads[t].pc = "idle" /\ Len(handles) < MaxHandles) => ENABLED OpenFile(t)
             /\ CanRead(t) => ENABLED BeginRead(t)
             /\ threads[t].pc = "loading" => ENABLED FinishLoad(t))
    /\ [][\A t \in Threads :
             threads[t].pc = "loading" /\ threads'[t].pc # "loading" =>
                \A g \in DOMAIN content \ {handles[threads[t].h].file} :
                    /\ content'[g] = content[g]
                    /\ fmu'[g] = fmu[g]
                    /\ loadCalls'[g] = loadCalls[g]]_vars

\* The loaders of the two files are running at the same time.
C36_Witness ==
    /\ Loading(<<"a">>) # {}
    /\ Loading(<<"a", "a">>) # {}

----------------------------------------------------------------------------
(* Claims about the subpath and about Readdir *)

\* The paths of the repository, files and directories.
RemotePaths == gc.repo \cup RepoDirs(gc.repo)

\* C37: with a subpath, every entry of the tree that getTree builds, the
\* root apart, is keyed by the rest of a remote path that begins with the
\* subpath and its "/", with the kind of that remote entry: the subpath
\* directory itself and the paths that only begin with its name, which have
\* no such key, are not in the tree.
C37_OnlyEntriesUnderSubpath ==
    (gc.pc = "done" /\ gc.result.tree /\ gc.path # <<>>) =>
        \A p \in DOMAIN tree \ {<<>>} :
            /\ gc.path \o p \in RemotePaths
            /\ (tree[p].kind = "file") = (gc.path \o p \in gc.repo)

\* A tree was built for the subpath a of a repository that also has the
\* file aa beside the directory a.
C37_Witness ==
    /\ gc.pc = "done"
    /\ gc.result.tree
    /\ gc.path = <<"a", "/">>
    /\ <<"a", "a">> \in gc.repo
    /\ <<"a">> \in DOMAIN tree
    /\ tree[<<"a">>].kind = "file"

\* s is the beginning of q.
IsPrefix(s, q) == Len(s) <= Len(q) /\ s = SubSeq(q, 1, Len(s))

\* The last call was a Readdir.
Listed == lastCall # NoCall /\ lastCall.op = "Readdir"

\* What the last Readdir returned is what a Readdir with the same n returns
\* from the directory as it is now: all its children, or the first n.
StillCurrent ==
    \/ Len(lastCall.files) = Len(tree[lastCall.path].files)
    \/ 0 < lastCall.n /\ Len(lastCall.files) = lastCall.n

\* C38: the children of a directory stay in the order in which they were
\* inserted, a child added later coming after them; Readdir returns no
\* error and a list that starts at the first child, and a Readdir repeated
\* with the same n on the same directory returns the same entries.
C38_ReaddirInsertionOrderStateless ==
    /\ [][\A d \in DOMAIN tree :
             tree[d].kind = "dir" =>
                d \in DOMAIN tree' /\ IsPrefix(tree[d].files, tree'[d].files)]_vars
    /\ [](Listed =>
             /\ lastCall.err = "nil"
             /\ IsPrefix(lastCall.files, tree[lastCall.path].files))
    /\ [][(/\ Listed
           /\ tree' = tree
           /\ lastCall'.op = "Readdir"
           /\ lastCall'.path = lastCall.path
           /\ lastCall'.n = lastCall.n
           /\ StillCurrent) => lastCall'.files = lastCall.files]_vars

\* The root was listed after aa and then a were added to it: the entries
\* come in that order.
C38_Witness ==
    /\ Listed
    /\ lastCall.path = <<>>
    /\ Len(lastCall.files) = 2
    /\ lastCall.files[1].name = <<"a", "a">>
    /\ lastCall.files[2].name = <<"a">>

\* C39: however a Read or a Seek and a Close made concurrently on the same
\* handle interleave, the Read or Seek never finds the reader that lazy()
\* has set taken away by the Close.
C39_ReadNeverSeesResetCursor ==
    lastRes.op \in {"Read", "Seek"} => lastRes.err \notin RaceOutcomes

====
